---- MODULE Spec2Model ----
(***************************************************************************)
(* A model of codex-mem's memory store and ingestion pipeline:             *)
(*   store.py   turns / memories tables, the memory_fts index, search      *)
(*   notify.py  ingest_event                                               *)
(*   models.py  TurnEvent.from_event_payload, content_hash                 *)
(*   spool.py   the spool file                                             *)
(*   cli.py     reconcile                                                  *)
(* Texts are sequences of one-character strings, so that strip(), lower(), *)
(* substring tests, difflib's ratio and the extractor's patterns are       *)
(* computed character by character as the code computes them.              *)
(* An optional value (Python's None or a value) is the empty set or the    *)
(* singleton of the value.                                                 *)
(***************************************************************************)
EXTENDS Integers, Sequences, FiniteSets, TLC

None == {}
Some(v) == {v}
IsNone(o) == o = {}
The(o) == CHOOSE v \in o : TRUE

\* a local assignment: Body with its parameter standing for value, which is
\* computed once
Let(value, Body(_)) == Body(value)

Min(a, b) == IF a <= b THEN a ELSE b
Max(a, b) == IF a >= b THEN a ELSE b
SetMax(S) == CHOOSE m \in S : \A x \in S : x <= m
SetMin(S) == CHOOSE m \in S : \A x \in S : m <= x

(***************************************************************************)
(* Characters and Python's str methods.                                    *)
(***************************************************************************)
UpperChars == <<"A","B","C","D","E","F","G","H","I","J","K","L","M",
                "N","O","P","Q","R","S","T","U","V","W","X","Y","Z">>
LowerChars == <<"a","b","c","d","e","f","g","h","i","j","k","l","m",
                "n","o","p","q","r","s","t","u","v","w","x","y","z">>
DigitChars == {"0","1","2","3","4","5","6","7","8","9"}
UpperSet == {UpperChars[i] : i \in 1..26}
LowerSet == {LowerChars[i] : i \in 1..26}

\* str.lower() on one character
LowerChar(c) ==
    IF c \in UpperSet
    THEN LowerChars[CHOOSE i \in 1..26 : UpperChars[i] = c]
    ELSE c

\* str.lower()
Lower(s) == [i \in 1..Len(s) |-> LowerChar(s[i])]

\* str.isspace() on one character
IsSpace(c) == c \in {" ", "\n", "\t", "\r"}

\* a character of the regex class \w
IsWordChar(c) == c \in UpperSet \cup LowerSet \cup DigitChars \cup {"_"}

\* str.strip(): drop leading and trailing whitespace
Strip(s) ==
    LET keep == {i \in 1..Len(s) : ~IsSpace(s[i])}
    IN  IF keep = {} THEN <<>> ELSE SubSeq(s, SetMin(keep), SetMax(keep))

\* s[i:i+len(sub)] == sub, positions from 1
MatchesAt(sub, s, i) ==
    /\ i + Len(sub) - 1 <= Len(s)
    /\ \A k \in 1..Len(sub) : s[i + k - 1] = sub[k]

\* Python's `sub in s`
Contains(sub, s) == \E i \in 1..(Len(s) + 1) : MatchesAt(sub, s, i)

\* sep.join(parts)
RECURSIVE Join(_, _)
Join(sep, parts) ==
    IF Len(parts) = 0 THEN <<>>
    ELSE IF Len(parts) = 1 THEN parts[1]
    ELSE parts[1] \o sep \o Join(sep, Tail(parts))

(***************************************************************************)
(* difflib.SequenceMatcher(None, a, b).ratio() for texts shorter than the  *)
(* 200 characters at which difflib's autojunk heuristic starts.            *)
(***************************************************************************)
\* length of the common run of a[i..ahi] and b[j..bhi]
RECURSIVE RunLen(_, _, _, _, _, _)
RunLen(a, b, i, j, ahi, bhi) ==
    IF i > ahi \/ j > bhi \/ a[i] # b[j] THEN 0
    ELSE 1 + RunLen(a, b, i + 1, j + 1, ahi, bhi)

\* find_longest_match(alo, ahi, blo, bhi): the longest matching block, of those
\* the one starting earliest in a, and of those the one starting earliest in b.
\* Ranges are inclusive and start at 1.
find_longest_match(a, b, alo, ahi, blo, bhi) ==
    LET run == [p \in (alo..ahi) \X (blo..bhi) |->
                    RunLen(a, b, p[1], p[2], ahi, bhi)]
        best == IF DOMAIN run = {} THEN 0
                ELSE SetMax({run[p] : p \in DOMAIN run})
    IN  IF best = 0 THEN [i |-> alo, j |-> blo, size |-> 0]
        ELSE LET bi == SetMin({p[1] : p \in {q \in DOMAIN run : run[q] = best}})
                 bj == SetMin({p[2] : p \in {q \in DOMAIN run :
                                                run[q] = best /\ q[1] = bi}})
             IN  [i |-> bi, j |-> bj, size |-> best]

\* the total size of get_matching_blocks(): the longest block, then the same
\* on the pieces to its left and to its right
RECURSIVE MatchTotal(_, _, _, _, _, _)
MatchTotal(a, b, alo, ahi, blo, bhi) ==
    IF alo > ahi \/ blo > bhi THEN 0
    ELSE LET m == find_longest_match(a, b, alo, ahi, blo, bhi)
         IN  IF m.size = 0 THEN 0
             ELSE m.size
                  + MatchTotal(a, b, alo, m.i - 1, blo, m.j - 1)
                  + MatchTotal(a, b, m.i + m.size, ahi, m.j + m.size, bhi)

\* the number of matched characters of ratio() = 2.0 * matches / length
Matches(a, b) == MatchTotal(a, b, 1, Len(a), 1, Len(b))

\* Settings.merge_threshold, 0.82, as the fraction 82 / 100
merge_threshold_num == 82
merge_threshold_den == 100

\* ratio() taken against the shorter of the two texts instead of both
RatioOfShorter(a, b, num, den) ==
    IF Len(a) + Len(b) = 0 THEN den >= num
    ELSE 2 * Matches(a, b) * den >= num * 2 * Min(Len(a), Len(b))

\* ratio() >= threshold; ratio() is 1.0 when both texts are empty
RatioAtLeast(a, b, num, den) ==
    IF Len(a) + Len(b) = 0 THEN den >= num
    ELSE 2 * Matches(a, b) * den >= num * (Len(a) + Len(b))

(***************************************************************************)
(* store.py: the turns and memories tables and the memory_fts index.       *)
(* A store state is a record                                               *)
(*   turns       the turns rows, in id order (ids are 1..Len)              *)
(*   memories    the memories rows, in id order (ids are 1..Len; no row is *)
(*               ever hard-deleted, so a new row's id is Len + 1)          *)
(*   memory_fts  per memories id, the (column, token) entries of the index *)
(*   spool       the entries of the spool file, oldest first               *)
(*   now         the clock: every datetime.now() reads it and advances it, *)
(*               so timestamps are strictly increasing                     *)
(***************************************************************************)
\* MemoryKind values
Kinds == {"preference", "fact", "decision", "todo", "pitfall", "workflow", "reference"}

\* a kind's value as text, as the index tokenizes it
KindText(k) ==
    CASE k = "preference" -> <<"p","r","e","f","e","r","e","n","c","e">>
      [] k = "fact"       -> <<"f","a","c","t">>
      [] k = "decision"   -> <<"d","e","c","i","s","i","o","n">>
      [] k = "todo"       -> <<"t","o","d","o">>
      [] k = "pitfall"    -> <<"p","i","t","f","a","l","l">>
      [] k = "workflow"   -> <<"w","o","r","k","f","l","o","w">>
      [] k = "reference"  -> <<"r","e","f","e","r","e","n","c","e">>

\* the fts5 default tokenizer: maximal runs of letters and digits, case folded
IsTokenChar(c) == c \in UpperSet \cup LowerSet \cup DigitChars
Tokens(s) ==
    LET starts == {i \in 1..Len(s) :
                      IsTokenChar(s[i]) /\ (i = 1 \/ ~IsTokenChar(s[i - 1]))}
        EndOf(i) == SetMin({j \in i..Len(s) :
                               j = Len(s) \/ ~IsTokenChar(s[j + 1])})
    IN  {Lower(SubSeq(s, i, EndOf(i))) : i \in starts}

\* the index entries a memories row's text, project_root and kind columns give
RowEntries(row) ==
    {[col |-> "text", tok |-> t] : t \in Tokens(row.text)}
    \cup (IF IsNone(row.project_root) THEN {}
          ELSE {[col |-> "project_root", tok |-> t] :
                    t \in Tokens(The(row.project_root))})
    \cup {[col |-> "kind", tok |-> t] : t \in Tokens(KindText(row.kind))}

\* trigger memories_ai: INSERT INTO memory_fts the new row
memories_ai(fts, row) == Append(fts, RowEntries(row))

\* trigger memories_au: DELETE FROM memory_fts WHERE rowid = old.id, then INSERT
\* the new row. memory_fts is an external-content table (content='memories'):
\* the DELETE reads the row to un-index from memories, which already holds the
\* new values, so it removes the new row's entries and leaves the old ones.
memories_au(fts, id, new) ==
    [fts EXCEPT ![id] = (fts[id] \ RowEntries(new)) \cup RowEntries(new)]

\* insert_turn on a turns table without the UNIQUE constraint on hash: every
\* call inserts a row
insert_turn_no_unique(st, turn, project_root, content_hash) ==
    [st |-> [st EXCEPT !.turns = Append(st.turns,
                [id |-> Len(st.turns) + 1,
                 thread_id |-> turn.thread_id,
                 turn_id |-> turn.turn_id,
                 ts_utc |-> turn.ts_utc,
                 cwd |-> turn.cwd,
                 project_root |-> project_root,
                 input_messages |-> turn.input_messages,
                 assistant_message |-> turn.assistant_message.content,
                 surface |-> turn.surface,
                 hash |-> content_hash])],
     ret |-> Some(Len(st.turns) + 1)]

\* Store.insert_turn: the row id, or None when the hash is already recorded
\* (sqlite3.IntegrityError from the UNIQUE constraint on turns.hash)
insert_turn(st, turn, project_root, content_hash) ==
    IF \E i \in 1..Len(st.turns) : st.turns[i].hash = content_hash
    THEN [st |-> st, ret |-> None]
    ELSE [st |-> [st EXCEPT !.turns = Append(st.turns,
                    [id |-> Len(st.turns) + 1,
                     thread_id |-> turn.thread_id,
                     turn_id |-> turn.turn_id,
                     ts_utc |-> turn.ts_utc,
                     cwd |-> turn.cwd,
                     project_root |-> project_root,
                     input_messages |-> turn.input_messages,
                     assistant_message |-> turn.assistant_message.content,
                     surface |-> turn.surface,
                     hash |-> content_hash])],
          ret |-> Some(Len(st.turns) + 1)]

\* _merge_text without the substring test: the new text is always appended
merge_text_always_append(existing, new_text) ==
    Strip(existing) \o <<"\n", "-", " ">> \o Strip(new_text)

\* _merge_text
merge_text(existing, new_text) ==
    IF Contains(Strip(new_text), existing) THEN existing
    ELSE Strip(existing) \o <<"\n", "-", " ">> \o Strip(new_text)

\* the LIMIT of _merge_if_similar's SELECT
MergeWindow == 8

\* ids in descending ts_utc order (timestamps of memories rows are distinct)
RECURSIVE ByTsDesc(_, _)
ByTsDesc(mem, ids) ==
    IF ids = {} THEN <<>>
    ELSE LET top == CHOOSE i \in ids : \A j \in ids : mem[j].ts_utc <= mem[i].ts_utc
         IN  <<top>> \o ByTsDesc(mem, ids \ {top})

\* _merge_if_similar's SELECT with a LIMIT one larger
merge_rows_wider(mem, kind, project_root) ==
    LET ids == {i \in 1..Len(mem) :
                   /\ mem[i].is_deleted = 0
                   /\ mem[i].kind = kind
                   /\ mem[i].project_root = project_root}
        sorted == ByTsDesc(mem, ids)
    IN  SubSeq(sorted, 1, Min(MergeWindow + 1, Len(sorted)))

\* _merge_if_similar's SELECT: the live rows of the kind and scope, newest
\* first, at most MergeWindow of them
merge_rows(mem, kind, project_root) ==
    LET ids == {i \in 1..Len(mem) :
                   /\ mem[i].is_deleted = 0
                   /\ mem[i].kind = kind
                   /\ mem[i].project_root = project_root}
        sorted == ByTsDesc(mem, ids)
    IN  SubSeq(sorted, 1, Min(MergeWindow, Len(sorted)))

\* ratio >= self.settings.merge_threshold for a candidate text and a stored text
similar(cand_text, row_text) ==
    RatioAtLeast(Lower(cand_text), Lower(row_text),
                 merge_threshold_num, merge_threshold_den)

\* Store._merge_if_similar going through the window oldest first
merge_if_similar_oldest_first(st, candidate, project_root) ==
    Let(merge_rows(st.memories, candidate.kind, project_root), LAMBDA rows :
    Let({k \in 1..Len(rows) :
            similar(candidate.text, st.memories[rows[k]].text)}, LAMBDA hits :
        IF hits = {} THEN [st |-> st, ret |-> None]
        ELSE
        Let(rows[SetMax(hits)], LAMBDA id :
        Let([st.memories[id] EXCEPT
                !.text = merge_text(st.memories[id].text, candidate.text),
                !.ts_utc = st.now], LAMBDA new :
            [st |-> [st EXCEPT !.memories[id] = new,
                               !.memory_fts = memories_au(st.memory_fts, id, new),
                               !.now = st.now + 1],
             ret |-> Some(id)]))))

\* Store._merge_if_similar: the first row of the window that is similar gets
\* the merged text and a fresh timestamp; its id, or None
merge_if_similar(st, candidate, project_root) ==
    Let(merge_rows(st.memories, candidate.kind, project_root), LAMBDA rows :
    Let({k \in 1..Len(rows) :
            similar(candidate.text, st.memories[rows[k]].text)}, LAMBDA hits :
        IF hits = {} THEN [st |-> st, ret |-> None]
        ELSE
        Let(rows[SetMin(hits)], LAMBDA id :
        Let([st.memories[id] EXCEPT
                !.text = merge_text(st.memories[id].text, candidate.text),
                !.ts_utc = st.now], LAMBDA new :
            [st |-> [st EXCEPT !.memories[id] = new,
                               !.memory_fts = memories_au(st.memory_fts, id, new),
                               !.now = st.now + 1],
             ret |-> Some(id)]))))

\* Store.add_memory with the INSERT leaving source_turn_id out
add_memory_unlinked(st, candidate, project_root, source_turn_id) ==
    Let(merge_if_similar(st, candidate, project_root), LAMBDA merged :
        IF ~IsNone(merged.ret) THEN merged
        ELSE LET row == [id |-> Len(st.memories) + 1,
                         ts_utc |-> st.now,
                         project_root |-> project_root,
                         kind |-> candidate.kind,
                         text |-> Strip(candidate.text),
                         source_turn_id |-> None,
                         importance |-> candidate.importance,
                         is_pinned |-> 0,
                         is_deleted |-> 0,
                         tags_json |-> IF candidate.tags # <<>>
                                       THEN Some(candidate.tags) ELSE None]
             IN  [st |-> [st EXCEPT !.memories = Append(st.memories, row),
                                    !.memory_fts = memories_ai(st.memory_fts, row),
                                    !.now = st.now + 1],
                  ret |-> Some(row.id)])

\* Store.add_memory: merge, or insert a new row; the row's id
add_memory(st, candidate, project_root, source_turn_id) ==
    Let(merge_if_similar(st, candidate, project_root), LAMBDA merged :
        IF ~IsNone(merged.ret) THEN merged
        ELSE LET row == [id |-> Len(st.memories) + 1,
                         ts_utc |-> st.now,
                         project_root |-> project_root,
                         kind |-> candidate.kind,
                         text |-> Strip(candidate.text),
                         source_turn_id |-> source_turn_id,
                         importance |-> candidate.importance,
                         is_pinned |-> 0,
                         is_deleted |-> 0,
                         tags_json |-> IF candidate.tags # <<>>
                                       THEN Some(candidate.tags) ELSE None]
             IN  [st |-> [st EXCEPT !.memories = Append(st.memories, row),
                                    !.memory_fts = memories_ai(st.memory_fts, row),
                                    !.now = st.now + 1],
                  ret |-> Some(row.id)])

\* Store.soft_delete with `AND is_deleted = 0` in the UPDATE: a row that is
\* already deleted counts as not found
soft_delete_live_only(st, memory_id) ==
    IF memory_id \in 1..Len(st.memories) /\ st.memories[memory_id].is_deleted = 0
    THEN LET new == [st.memories[memory_id] EXCEPT !.is_deleted = 1]
         IN  [st |-> [st EXCEPT !.memories[memory_id] = new,
                                !.memory_fts = memories_au(st.memory_fts, memory_id, new)],
              ret |-> TRUE]
    ELSE [st |-> st, ret |-> FALSE]

\* Store.soft_delete: whether a row had the id
soft_delete(st, memory_id) ==
    IF memory_id \in 1..Len(st.memories)
    THEN LET new == [st.memories[memory_id] EXCEPT !.is_deleted = 1]
         IN  [st |-> [st EXCEPT !.memories[memory_id] = new,
                                !.memory_fts = memories_au(st.memory_fts, memory_id, new)],
              ret |-> TRUE]
    ELSE [st |-> st, ret |-> FALSE]

\* Store.update_memory testing the arguments for truth (`if is_pinned:`,
\* `if tags:`) instead of `is not None`
update_memory_truthy(st, memory_id, text, importance, is_pinned, tags) ==
    Let(IF ~IsNone(text) /\ The(text) = <<>> THEN None ELSE text, LAMBDA text1 :
    Let(IF ~IsNone(is_pinned) /\ ~The(is_pinned) THEN None ELSE is_pinned, LAMBDA pinned1 :
    Let(IF ~IsNone(tags) /\ The(tags) = <<>> THEN None ELSE tags, LAMBDA tags1 :
        IF IsNone(text1) /\ IsNone(importance) /\ IsNone(pinned1) /\ IsNone(tags1)
        THEN [st |-> st, ret |-> FALSE]
        ELSE IF memory_id \in 1..Len(st.memories)
        THEN LET old == st.memories[memory_id]
                 new == [old EXCEPT
                            !.text = IF IsNone(text1) THEN old.text ELSE The(text1),
                            !.importance = IF IsNone(importance) THEN old.importance
                                           ELSE The(importance),
                            !.is_pinned = IF IsNone(pinned1) THEN old.is_pinned ELSE 1,
                            !.tags_json = IF IsNone(tags1) THEN old.tags_json
                                          ELSE Some(The(tags1))]
             IN  [st |-> [st EXCEPT !.memories[memory_id] = new,
                                    !.memory_fts = memories_au(st.memory_fts, memory_id, new)],
                  ret |-> TRUE]
        ELSE [st |-> st, ret |-> FALSE])))

\* Store.update_memory: each argument is None (not given) or a value
update_memory(st, memory_id, text, importance, is_pinned, tags) ==
    IF IsNone(text) /\ IsNone(importance) /\ IsNone(is_pinned) /\ IsNone(tags)
    THEN [st |-> st, ret |-> FALSE]
    ELSE IF memory_id \in 1..Len(st.memories)
    THEN LET old == st.memories[memory_id]
             new == [old EXCEPT
                        !.text = IF IsNone(text) THEN old.text ELSE The(text),
                        !.importance = IF IsNone(importance) THEN old.importance
                                       ELSE The(importance),
                        !.is_pinned = IF IsNone(is_pinned) THEN old.is_pinned
                                      ELSE (IF The(is_pinned) THEN 1 ELSE 0),
                        !.tags_json = IF IsNone(tags) THEN old.tags_json
                                      ELSE Some(The(tags))]
         IN  [st |-> [st EXCEPT !.memories[memory_id] = new,
                                !.memory_fts = memories_au(st.memory_fts, memory_id, new)],
              ret |-> TRUE]
    ELSE [st |-> st, ret |-> FALSE]

(***************************************************************************)
(* Store.search.  The query is matched through memory_fts only when it is  *)
(* neither empty nor "*".  The model covers plain queries: words of        *)
(* letters and digits separated by blanks (fts5 reads them as an AND of    *)
(* terms, each matched in any column); other fts5 syntax is not an input.  *)
(* bm25() is not computed: rows that tie on (is_pinned, importance) come   *)
(* in any order for a matched query, so search yields a set of possible    *)
(* lists.                                                                  *)
(***************************************************************************)
\* _fts_query: double quotes become blanks
fts_query(cleaned) ==
    [i \in 1..Len(cleaned) |-> IF cleaned[i] = "\"" THEN " " ELSE cleaned[i]]

\* use_fts of Store.search
use_fts(query) == Strip(query) # <<>> /\ Strip(query) # <<"*">>

\* the terms of a plain query
QueryTerms(query) == Tokens(fts_query(Strip(query)))

\* a query the model covers: no match needed, or barewords only
IsPlainQuery(query) ==
    LET q == fts_query(Strip(query))
    IN  \/ ~use_fts(query)
        \/ /\ \A i \in 1..Len(q) : IsTokenChar(q[i]) \/ IsSpace(q[i])
           /\ QueryTerms(query) # {}
           /\ \A i \in 1..Len(q) : q[i] \notin UpperSet

\* memory_fts MATCH ?: every term is indexed for the row, in some column
fts_match(fts, id, query) ==
    \A t \in QueryTerms(query) : \E e \in fts[id] : e.tok = t

\* the WHERE clause with include_global widening the scope to every row
\* (`project_root = ? OR ?` without the `project_root IS NULL`)
search_where_any_scope(st, id, query, project_root, include_global, kinds) ==
    LET m == st.memories[id]
    IN  /\ m.is_deleted = 0
        /\ IF ~IsNone(project_root)
           THEN m.project_root = project_root \/ include_global
           ELSE include_global \/ ~IsNone(m.project_root)
        /\ (~IsNone(kinds) /\ The(kinds) # <<>>)
              => \E k \in 1..Len(The(kinds)) : m.kind = The(kinds)[k]
        /\ use_fts(query) => fts_match(st.memory_fts, id, query)

\* the WHERE clause of Store.search without `m.is_deleted = 0`
search_where_with_deleted(st, id, query, project_root, include_global, kinds) ==
    LET m == st.memories[id]
    IN  /\ IF ~IsNone(project_root)
           THEN \/ m.project_root = project_root
                \/ include_global /\ IsNone(m.project_root)
           ELSE include_global \/ ~IsNone(m.project_root)
        /\ (~IsNone(kinds) /\ The(kinds) # <<>>)
              => \E k \in 1..Len(The(kinds)) : m.kind = The(kinds)[k]
        /\ use_fts(query) => fts_match(st.memory_fts, id, query)

\* the WHERE clause of Store.search (scope, kinds, is_deleted) and the MATCH
search_where(st, id, query, project_root, include_global, kinds) ==
    LET m == st.memories[id]
    IN  /\ m.is_deleted = 0
        /\ IF ~IsNone(project_root)
           THEN \/ m.project_root = project_root
                \/ include_global /\ IsNone(m.project_root)
           ELSE include_global \/ ~IsNone(m.project_root)
        /\ (~IsNone(kinds) /\ The(kinds) # <<>>)
              => \E k \in 1..Len(The(kinds)) : m.kind = The(kinds)[k]
        /\ use_fts(query) => fts_match(st.memory_fts, id, query)

\* all orderings of a finite set
RECURSIVE Perms(_)
Perms(S) ==
    IF S = {} THEN {<<>>}
    ELSE UNION {{<<x>> \o p : p \in Perms(S \ {x})} : x \in S}

\* ORDER BY with importance ahead of is_pinned
search_order_importance_first(a, b, with_score) ==
    \/ a.importance > b.importance
    \/ /\ a.importance = b.importance
       /\ \/ a.is_pinned > b.is_pinned
          \/ /\ a.is_pinned = b.is_pinned
             /\ with_score \/ a.ts_utc >= b.ts_utc

\* ORDER BY m.is_pinned DESC, m.importance DESC, [score ASC,] m.ts_utc DESC:
\* whether row a may come directly before row b
search_order(a, b, with_score) ==
    \/ a.is_pinned > b.is_pinned
    \/ /\ a.is_pinned = b.is_pinned
       /\ \/ a.importance > b.importance
          \/ /\ a.importance = b.importance
             /\ with_score \/ a.ts_utc >= b.ts_utc

\* LIMIT ? - 1: one row fewer than asked for
sql_limit_one_short(rows, limit) ==
    IF limit < 0 THEN rows ELSE SubSeq(rows, 1, Min(limit - 1, Len(rows)))

\* LIMIT ?: a negative limit is no limit in SQLite
sql_limit(rows, limit) ==
    IF limit < 0 THEN rows ELSE SubSeq(rows, 1, Min(limit, Len(rows)))

\* _filter_by_tags keeping the rows that have any of the requested tags
filter_by_tags_any(rows, tags) ==
    IF IsNone(tags) \/ The(tags) = <<>> THEN rows
    ELSE SelectSeq(rows, LAMBDA row :
            /\ ~IsNone(row.tags_json)
            /\ \E k \in 1..Len(The(tags)), j \in 1..Len(The(row.tags_json)) :
                  The(row.tags_json)[j] = The(tags)[k])

\* _filter_by_tags: keep the rows whose tags include every requested tag
RECURSIVE filter_by_tags(_, _)
filter_by_tags(rows, tags) ==
    IF IsNone(tags) \/ The(tags) = <<>> THEN rows
    ELSE IF rows = <<>> THEN <<>>
    ELSE LET row == Head(rows)
             existing == IF IsNone(row.tags_json) THEN {}
                         ELSE {The(row.tags_json)[k] :
                                  k \in 1..Len(The(row.tags_json))}
             tag_set == {The(tags)[k] : k \in 1..Len(The(tags))}
         IN  (IF tag_set \subseteq existing THEN <<row>> ELSE <<>>)
             \o filter_by_tags(Tail(rows), tags)

\* the rows the SQL statement of Store.search can return, before the tag filter
search_sql(st, query, project_root, limit, include_global, kinds) ==
    LET ids == {i \in 1..Len(st.memories) :
                   search_where(st, i, query, project_root, include_global, kinds)}
        ordered == {p \in Perms(ids) :
                       \A k \in 1..(Len(p) - 1) :
                           search_order(st.memories[p[k]], st.memories[p[k + 1]],
                                        use_fts(query))}
    IN  {sql_limit([k \in 1..Len(p) |-> st.memories[p[k]]], limit) : p \in ordered}

\* Store.search: the lists it can return
search(st, query, project_root, limit, include_global, kinds, tags) ==
    {filter_by_tags(rows, tags) :
        rows \in search_sql(st, query, project_root, limit, include_global, kinds)}

(***************************************************************************)
(* models.py: the notify payload (a JSON object) and TurnEvent.            *)
(* A JSON value is a record tagged str (a text), atom (a short string the  *)
(* code only copies: a role, a surface), int (a timestamp), list, dict or  *)
(* none. A dict is a function from its keys.                               *)
(***************************************************************************)
VNone == [t |-> "none"]
VStr(s) == [t |-> "str", s |-> s]
VAtom(a) == [t |-> "atom", a |-> a]
VInt(n) == [t |-> "int", n |-> n]
VList(l) == [t |-> "list", l |-> l]
VDict(d) == [t |-> "dict", d |-> d]

\* dict.get(key)
Get(d, key) == IF key \in DOMAIN d THEN d[key] ELSE VNone

\* Python truthiness, as `or` tests it
Truthy(v) ==
    CASE v.t = "none" -> FALSE
      [] v.t = "str"  -> v.s # <<>>
      [] v.t = "atom" -> TRUE
      [] v.t = "int"  -> v.n # 0
      [] v.t = "list" -> v.l # <<>>
      [] v.t = "dict" -> DOMAIN v.d # {}

\* a or b
Or(a, b) == IF Truthy(a) THEN a ELSE b

\* str(value) for the text fields: a text, or "" after `or ""`
StrOf(v) == IF v.t = "str" THEN v.s ELSE <<>>

\* an optional atom
AtomOf(v) == IF v.t = "atom" THEN Some(v.a) ELSE None

\* _flatten_content_fragments, for fragments that are texts or {"text": ...}
flatten_content_fragments(chunks) ==
    [k \in 1..Len(chunks) |->
        IF chunks[k].t = "str" THEN chunks[k].s
        ELSE StrOf(Get(chunks[k].d, "text"))]

\* _coerce_message, giving the Message it is made into
coerce_message(value, default_role) ==
    IF value.t = "str"
    THEN [content |-> value.s, role |-> Some(default_role),
          surface |-> None, type |-> None]
    ELSE LET content == Get(value.d, "content")
         IN  [content |-> IF content.t = "list"
                          THEN Join(<<"\n">>, flatten_content_fragments(content.l))
                          ELSE StrOf(content),
              role |-> IF Truthy(Get(value.d, "role"))
                       THEN AtomOf(Get(value.d, "role")) ELSE Some(default_role),
              surface |-> AtomOf(Get(value.d, "surface")),
              type |-> AtomOf(Get(value.d, "type"))]

\* TurnEvent.from_event_payload taking a missing last assistant message for
\* an empty one instead of raising
from_event_payload_default_reply(payload, clock) ==
    LET inputs == Or(Or(Get(payload, "input-messages"), Get(payload, "input_messages")),
                     VList(<<>>))
        raw_inputs == IF inputs.t = "list" THEN inputs.l ELSE <<inputs>>
        ts_value == Or(Get(payload, "ts_utc"), Get(payload, "timestamp"))
    IN  [raised |-> FALSE,
         turn |-> [thread_id |-> StrOf(Or(Or(Get(payload, "thread-id"),
                                             Get(payload, "thread_id")), VStr(<<>>))),
                   turn_id |-> StrOf(Or(Or(Get(payload, "turn-id"),
                                           Get(payload, "turn_id")), VStr(<<>>))),
                   cwd |-> StrOf(Or(Get(payload, "cwd"), VStr(<<>>))),
                   surface |-> AtomOf(Get(payload, "surface")),
                   input_messages |->
                       [k \in 1..Len(raw_inputs) |-> coerce_message(raw_inputs[k], "user")],
                   assistant_message |->
                       coerce_message(Or(Or(Get(payload, "last-assistant-message"),
                                            Get(payload, "last_assistant_message")),
                                         VStr(<<>>)), "assistant"),
                   ts_utc |-> IF Truthy(ts_value) THEN ts_value.n ELSE clock]]

\* TurnEvent.from_event_payload: the turn, or raised (ValueError) when the
\* payload has no last assistant message. clock is what datetime.now() gives.
from_event_payload(payload, clock) ==
    LET cwd == Or(Get(payload, "cwd"), VStr(<<>>))
        thread_id == Or(Or(Get(payload, "thread-id"), Get(payload, "thread_id")),
                        VStr(<<>>))
        turn_id == Or(Or(Get(payload, "turn-id"), Get(payload, "turn_id")),
                      VStr(<<>>))
        surface == Get(payload, "surface")
        ts_value == Or(Get(payload, "ts_utc"), Get(payload, "timestamp"))
        inputs == Or(Or(Get(payload, "input-messages"), Get(payload, "input_messages")),
                     VList(<<>>))
        raw_inputs == IF inputs.t = "list" THEN inputs.l ELSE <<inputs>>
        last_assistant == Or(Get(payload, "last-assistant-message"),
                             Get(payload, "last_assistant_message"))
    IN  IF last_assistant.t = "none"
        THEN [raised |-> TRUE]
        ELSE [raised |-> FALSE,
              turn |-> [thread_id |-> StrOf(thread_id),
                        turn_id |-> StrOf(turn_id),
                        cwd |-> StrOf(cwd),
                        surface |-> AtomOf(surface),
                        input_messages |->
                            [k \in 1..Len(raw_inputs) |->
                                coerce_message(raw_inputs[k], "user")],
                        assistant_message |->
                            coerce_message(last_assistant, "assistant"),
                        ts_utc |-> IF Truthy(ts_value) THEN ts_value.n ELSE clock]]

\* json.dumps of a text: quotes around it, with the escapes of the characters
\* the model's texts can hold
json_string(s) ==
    LET Esc(c) == CASE c = "\n" -> <<"\\", "n">>
                    [] c = "\t" -> <<"\\", "t">>
                    [] c = "\r" -> <<"\\", "r">>
                    [] c = "\"" -> <<"\\", "\"">>
                    [] c = "\\" -> <<"\\", "\\">>
                    [] OTHER -> <<c>>
    IN  <<"\"">> \o Join(<<>>, [i \in 1..Len(s) |-> Esc(s[i])]) \o <<"\"">>

\* json.dumps of a list of texts
json_list(texts) ==
    <<"[">> \o Join(<<",", " ">>, [k \in 1..Len(texts) |-> json_string(texts[k])])
    \o <<"]">>

\* TurnEvent.content_hash: the text that is hashed; SHA-256 is taken to be
\* injective, so the digest is that text
content_hash(turn) ==
    Join(<<"|">>,
         << Strip(turn.thread_id),
            Strip(turn.turn_id),
            Strip(turn.cwd),
            Strip(turn.assistant_message.content),
            json_list([k \in 1..Len(turn.input_messages) |->
                          Strip(turn.input_messages[k].content)]) >>)

\* Message.model_dump(mode="json")
message_dump(m) ==
    VDict([k \in {"content", "role", "surface", "type"} |->
        CASE k = "content" -> VStr(m.content)
          [] k = "role"    -> IF IsNone(m.role) THEN VNone ELSE VAtom(The(m.role))
          [] k = "surface" -> IF IsNone(m.surface) THEN VNone ELSE VAtom(The(m.surface))
          [] k = "type"    -> IF IsNone(m.type) THEN VNone ELSE VAtom(The(m.type))])

\* TurnEvent.model_dump(mode="json"): a dict keyed by the model's field names
model_dump(turn) ==
    [k \in {"thread_id", "turn_id", "cwd", "input_messages", "assistant_message",
            "surface", "ts_utc"} |->
        CASE k = "thread_id" -> VStr(turn.thread_id)
          [] k = "turn_id"   -> VStr(turn.turn_id)
          [] k = "cwd"       -> VStr(turn.cwd)
          [] k = "input_messages" ->
                VList([i \in 1..Len(turn.input_messages) |->
                          message_dump(turn.input_messages[i])])
          [] k = "assistant_message" -> message_dump(turn.assistant_message)
          [] k = "surface"   -> IF IsNone(turn.surface) THEN VNone
                                ELSE VAtom(The(turn.surface))
          [] k = "ts_utc"    -> VInt(turn.ts_utc)]

(***************************************************************************)
(* redact.py.  A detector here is a set of literal prefixes followed by a  *)
(* greedy run of a character class, with a least and a greatest length:    *)
(* the shape of OPENAI_KEY, GITHUB_TOKEN, AWS_KEY and SLACK.  BEARER, PEM   *)
(* and JWT need "Bearer ", "-----BEGIN " or a run of 20 token characters   *)
(* before a "."; no text of the model holds one, so they never match.      *)
(***************************************************************************)
AlnumSet == UpperSet \cup LowerSet \cup DigitChars

\* no upper bound on a run ({32,}); texts are shorter
NoMax == 200

\* DEFAULT_PATTERNS, in order
DEFAULT_PATTERNS ==
    << [name |-> <<"O","P","E","N","A","I","_","K","E","Y">>, prefixes |-> {<<"s","k","-">>},
        class |-> AlnumSet, min |-> 32, max |-> NoMax],
       [name |-> <<"G","I","T","H","U","B","_","T","O","K","E","N">>,
        prefixes |-> {<<"g","h","p","_">>, <<"g","h","o","_">>, <<"g","h","u","_">>, <<"g","h","s","_">>, <<"g","h","r","_">>},
        class |-> AlnumSet, min |-> 36, max |-> NoMax],
       [name |-> <<"A","W","S","_","K","E","Y">>, prefixes |-> {<<"A","K","I","A">>},
        class |-> UpperSet \cup DigitChars, min |-> 16, max |-> 16],
       [name |-> <<"S","L","A","C","K">>,
        prefixes |-> {<<"x","o","x","b","-">>, <<"x","o","x","a","-">>, <<"x","o","x","p","-">>, <<"x","o","x","r","-">>, <<"x","o","x","s","-">>},
        class |-> AlnumSet \cup {"-"}, min |-> 10, max |-> 48] >>

\* the length of the run of class characters of s from position i, up to max
RECURSIVE ClassRun(_, _, _, _)
ClassRun(s, i, class, max) ==
    IF max = 0 \/ i > Len(s) \/ s[i] \notin class THEN 0
    ELSE 1 + ClassRun(s, i + 1, class, max - 1)

\* the length of the detector's match at position i of s, 0 when there is none
PatternMatchLen(s, i, pat) ==
    LET lens == {Len(p) + ClassRun(s, i + Len(p), pat.class, pat.max) :
                    p \in {q \in pat.prefixes :
                              /\ MatchesAt(q, s, i)
                              /\ ClassRun(s, i + Len(q), pat.class, pat.max) >= pat.min}}
    IN  IF lens = {} THEN 0 ELSE SetMax(lens)

\* pattern.sub("[REDACTED:<name>]", s), from position i on
RECURSIVE PatternSub(_, _, _)
PatternSub(s, i, pat) ==
    IF i > Len(s) THEN <<>>
    ELSE LET n == PatternMatchLen(s, i, pat)
         IN  IF n > 0
             THEN <<"[","R","E","D","A","C","T","E","D",":">> \o pat.name \o <<"]">> \o PatternSub(s, i + n, pat)
             ELSE <<s[i]>> \o PatternSub(s, i + 1, pat)

\* redact_text with no extra patterns: each detector in turn, on the text the
\* earlier ones left
RECURSIVE RedactFrom(_, _)
RedactFrom(text, k) ==
    IF k > Len(DEFAULT_PATTERNS) THEN text
    ELSE RedactFrom(PatternSub(text, 1, DEFAULT_PATTERNS[k]), k + 1)

redact_text(text) == RedactFrom(text, 1)

\* _redact_turn redacting the input messages and leaving the reply as it is
redact_turn_inputs_only(turn) ==
    [turn EXCEPT
        !.input_messages =
            [k \in 1..Len(turn.input_messages) |->
                [turn.input_messages[k] EXCEPT !.content = redact_text(@)]]]

\* _redact_turn
redact_turn(turn) ==
    [turn EXCEPT
        !.input_messages =
            [k \in 1..Len(turn.input_messages) |->
                [turn.input_messages[k] EXCEPT !.content = redact_text(@)]],
        !.assistant_message.content = redact_text(@)]

(***************************************************************************)
(* paths.py and notify._is_allowed.  Paths are absolute, normalized texts. *)
(* The file system is the set of directories that hold a root marker.      *)
(***************************************************************************)
\* the directories holding ".git"
MarkerDirs == {<<"/","a">>}

\* Path.parent: the text up to the last "/" ("/" is its own parent)
ParentOf(path) ==
    LET cut == SetMax({i \in 1..Len(path) : path[i] = "/"})
    IN  IF cut = 1 THEN <<"/">> ELSE SubSeq(path, 1, cut - 1)

\* detect_project_root: the nearest directory from cwd upward holding a marker
RECURSIVE detect_project_root(_)
detect_project_root(cwd) ==
    IF cwd \in MarkerDirs THEN Some(cwd)
    ELSE IF cwd = <<"/">> THEN None
    ELSE detect_project_root(ParentOf(cwd))

\* fnmatch.fnmatchcase for patterns of literal characters, "*" and "?"
RECURSIVE fnmatch(_, _)
fnmatch(name, pattern) ==
    IF pattern = <<>> THEN name = <<>>
    ELSE IF Head(pattern) = "*"
    THEN \/ fnmatch(name, Tail(pattern))
         \/ name # <<>> /\ fnmatch(Tail(name), pattern)
    ELSE /\ name # <<>>
         /\ Head(pattern) = "?" \/ Head(pattern) = Head(name)
         /\ fnmatch(Tail(name), Tail(pattern))

\* _is_allowed without the deny list
is_allowed_deny_ignored(cwd, settings) ==
    settings.allow_globs # <<>>
        => \E k \in 1..Len(settings.allow_globs) : fnmatch(cwd, settings.allow_globs[k])

\* _is_allowed
is_allowed(cwd, settings) ==
    /\ settings.allow_globs # <<>>
          => \E k \in 1..Len(settings.allow_globs) : fnmatch(cwd, settings.allow_globs[k])
    /\ settings.deny_globs # <<>>
          => ~\E k \in 1..Len(settings.deny_globs) : fnmatch(cwd, settings.deny_globs[k])

(***************************************************************************)
(* extractor.py: the rule-based extractor (remote extraction is off).      *)
(***************************************************************************)
\* pattern.search(sentence) for a pattern \b<word>\b whose first and last
\* characters are word characters
word_search(sentence, word, ignorecase) ==
    LET s == IF ignorecase THEN Lower(sentence) ELSE sentence
    IN  \E i \in 1..Len(s) :
           /\ MatchesAt(word, s, i)
           /\ i = 1 \/ ~IsWordChar(s[i - 1])
           /\ i + Len(word) - 1 = Len(s) \/ ~IsWordChar(s[i + Len(word)])

PREFERENCE_PATTERNS == {<<"p","r","e","f","e","r">>, <<"a","l","w","a","y","s">>, <<"f","r","o","m"," ","n","o","w"," ","o","n">>}
DECISION_PATTERNS == {<<"w","e"," ","w","i","l","l">>, <<"w","e"," ","d","e","c","i","d","e","d">>, <<"d","e","c","i","s","i","o","n">>, <<"c","h","o","o","s","e">>}
TODO_PATTERNS_CASED == {<<"T","O","D","O">>}
TODO_PATTERNS == {<<"n","e","x","t">>, <<"f","o","l","l","o","w"," ","u","p">>, <<"n","e","e","d"," ","t","o">>}
FACT_PATTERNS == {<<"u","s","e">>, <<"u","s","i","n","g">>, <<"r","u","n","n","i","n","g">>, <<"v","e","r","s","i","o","n">>}
PITFALL_PATTERNS == {<<"a","v","o","i","d">>, <<"d","o","n","'","t">>, <<"i","s","s","u","e">>, <<"f","a","i","l">>, <<"f","a","i","l","s">>}
WORKFLOW_PATTERNS == {<<"w","o","r","k","f","l","o","w">>, <<"p","r","o","c","e","s","s">>, <<"s","t","e","p","s">>}
REFERENCE_PATTERNS == {<<"s","e","e">>, <<"r","e","f">>, <<"r","e","f","e","r","e","n","c","e">>, <<"d","o","c">>, <<"u","r","l">>}

\* _classify_sentence: the first category with a matching pattern, or None
classify_sentence(sentence) ==
    LET AnyOf(pats) == \E w \in pats : word_search(sentence, w, TRUE)
    IN  IF AnyOf(PREFERENCE_PATTERNS) THEN Some("preference")
        ELSE IF AnyOf(DECISION_PATTERNS) THEN Some("decision")
        ELSE IF AnyOf(TODO_PATTERNS)
                \/ \E w \in TODO_PATTERNS_CASED : word_search(sentence, w, FALSE)
             THEN Some("todo")
        ELSE IF AnyOf(PITFALL_PATTERNS) THEN Some("pitfall")
        ELSE IF AnyOf(WORKFLOW_PATTERNS) THEN Some("workflow")
        ELSE IF AnyOf(REFERENCE_PATTERNS) THEN Some("reference")
        ELSE IF AnyOf(FACT_PATTERNS) THEN Some("fact")
        ELSE None

\* _importance_for_sentence
importance_for_sentence(sentence) ==
    LET lowered == Lower(sentence)
    IN  IF Contains(<<"a","l","w","a","y","s">>, lowered) \/ Contains(<<"n","e","v","e","r">>, lowered)
           \/ Contains(<<"m","u","s","t">>, lowered) THEN 5
        ELSE IF Contains(<<"s","h","o","u","l","d">>, lowered) THEN 4
        ELSE IF Contains(<<"m","a","y","b","e">>, lowered) \/ Contains(<<"o","p","t","i","o","n","a","l">>, lowered) THEN 2
        ELSE 3

\* SENTENCE_SPLIT.split(text) from position start on: a separator is a run of
\* whitespace whose first character follows ".", "!", "?" or a newline
RECURSIVE SplitFrom(_, _)
SplitFrom(text, start) ==
    LET seps == {i \in (start + 1)..Len(text) :
                    IsSpace(text[i]) /\ text[i - 1] \in {".", "!", "?", "\n"}}
    IN  IF start > Len(text) THEN <<<<>>>>
        ELSE IF seps = {} THEN <<SubSeq(text, start, Len(text))>>
        ELSE LET b == SetMin(seps)
                 e == SetMin({j \in b..Len(text) :
                                 j = Len(text) \/ ~IsSpace(text[j + 1])})
             IN  <<SubSeq(text, start, b - 1)>> \o SplitFrom(text, e + 1)

\* _split_sentences: the pieces, stripped, without the empty ones
split_sentences(text) ==
    LET raw == SplitFrom(text, 1)
        RECURSIVE Keep(_)
        Keep(k) == IF k > Len(raw) THEN <<>>
                   ELSE (IF Strip(raw[k]) # <<>> THEN <<Strip(raw[k])>> ELSE <<>>)
                        \o Keep(k + 1)
    IN  Keep(1)

\* the loop of _rule_based_extract over the sentences from k on, with the
\* candidates found so far: the cap is tested after each append
RECURSIVE ExtractLoop(_, _, _, _)
ExtractLoop(sentences, k, candidates, limit) ==
    IF k > Len(sentences) THEN candidates
    ELSE LET kind == classify_sentence(sentences[k])
         IN  IF IsNone(kind) THEN ExtractLoop(sentences, k + 1, candidates, limit)
             ELSE LET found == Append(candidates,
                                   [kind |-> The(kind),
                                    text |-> Strip(sentences[k]),
                                    importance |-> importance_for_sentence(sentences[k]),
                                    tags |-> <<>>])
                  IN  IF Len(found) >= limit THEN found
                      ELSE ExtractLoop(sentences, k + 1, found, limit)

\* _rule_based_extract
rule_based_extract(turn, limit) ==
    LET source_text ==
            Join(<<"\n">>,
                 [k \in 1..Len(turn.input_messages) |-> turn.input_messages[k].content]
                 \o <<turn.assistant_message.content>>)
    IN  ExtractLoop(split_sentences(source_text), 1, <<>>, limit)

\* extract_memories, with settings.remote_enabled false
extract_memories(turn, settings) ==
    rule_based_extract(turn, settings.max_memories_per_turn)

(***************************************************************************)
(* spool.py, notify.ingest_event and cli.reconcile.                        *)
(* A storage failure (sqlite3.OperationalError) is an input of the call:   *)
(* fault is the number of the storage call that raises (1 is insert_turn,  *)
(* 1 + k is the k-th add_memory), 0 is a healthy store.  A call that       *)
(* raises changes nothing in the database.  Spool writes succeed.          *)
(***************************************************************************)
\* spool.append
spool_append(st, entry) == [st EXCEPT !.spool = Append(st.spool, entry)]

\* spool.read_all
spool_read_all(st) == st.spool

\* spool.clear
spool_clear(st) == [st EXCEPT !.spool = <<>>]

\* the except branches of ingest_event appending the dumped turn twice
spool_turn_twice(st, turn, settings) ==
    IF settings.spool_enabled
    THEN spool_append(spool_append(st, [k \in {"payload"} |-> VDict(model_dump(turn))]),
                      [k \in {"payload"} |-> VDict(model_dump(turn))])
    ELSE st

\* the except branches of ingest_event: spool the dumped turn if enabled
spool_turn(st, turn, settings) ==
    IF settings.spool_enabled
    THEN spool_append(st, [k \in {"payload"} |-> VDict(model_dump(turn))])
    ELSE st

\* the loop of ingest_event over the candidates from k on
RECURSIVE AddCandidates(_, _, _, _, _, _, _, _)
AddCandidates(st, turn, candidates, k, project_root, turn_id, settings, fault) ==
    IF k > Len(candidates)
    THEN [st |-> st, raised |-> FALSE, ret |-> TRUE, outcome |-> "accepted",
          added |-> k - 1]
    ELSE IF fault = 1 + k
    THEN [st |-> spool_turn(st, turn, settings), raised |-> FALSE, ret |-> FALSE,
          outcome |-> "spooled", added |-> k - 1]
    ELSE AddCandidates(add_memory(st, candidates[k], project_root, Some(turn_id)).st,
                       turn, candidates, k + 1, project_root, turn_id, settings, fault)

\* ingest_event: the store afterwards, whether it raised (ValueError), the
\* value returned, the outcome, and the number of add_memory calls that returned
ingest_event(st, payload, settings, fault) ==
    Let(from_event_payload(payload, st.now), LAMBDA parsed :
        IF parsed.raised
        THEN [st |-> st, raised |-> TRUE, ret |-> FALSE, outcome |-> "input_error",
              added |-> 0]
        ELSE
        Let(IF Truthy(Or(Get(payload, "ts_utc"), Get(payload, "timestamp")))
            THEN st ELSE [st EXCEPT !.now = st.now + 1], LAMBDA st1 :
        Let(redact_turn(parsed.turn), LAMBDA turn :
        Let(detect_project_root(turn.cwd), LAMBDA project_root :
            IF ~is_allowed(turn.cwd, settings)
            THEN [st |-> st1, raised |-> FALSE, ret |-> FALSE,
                  outcome |-> "filtered_out", added |-> 0]
            ELSE IF fault = 1
            THEN [st |-> spool_turn(st1, turn, settings), raised |-> FALSE,
                  ret |-> FALSE, outcome |-> "spooled", added |-> 0]
            ELSE
            Let(insert_turn(st1, turn, project_root, content_hash(turn)),
                LAMBDA inserted :
                IF IsNone(inserted.ret)
                THEN [st |-> inserted.st, raised |-> FALSE, ret |-> TRUE,
                      outcome |-> "deduped", added |-> 0]
                ELSE AddCandidates(inserted.st, turn,
                                   extract_memories(turn, settings), 1,
                                   project_root, The(inserted.ret), settings,
                                   fault))))))

\* the loop of cli.reconcile over the entries from k on: ingest() returns
\* False for an entry without a payload; an exception of ingest_event is not
\* caught and ends the command
RECURSIVE ReplayFrom(_, _, _, _, _, _, _)
ReplayFrom(st, entries, k, settings, fault, success, failures) ==
    IF k > Len(entries)
    THEN [st |-> st, raised |-> FALSE, success |-> success, failures |-> failures]
    ELSE LET payload == Get(entries[k], "payload")
         IN  IF ~Truthy(payload)
             THEN ReplayFrom(st, entries, k + 1, settings, fault, success, failures + 1)
             ELSE Let(ingest_event(st, payload.d, settings, fault), LAMBDA r :
                      IF r.raised
                      THEN [st |-> r.st, raised |-> TRUE,
                            success |-> success, failures |-> failures]
                      ELSE IF r.ret
                      THEN ReplayFrom(r.st, entries, k + 1, settings, fault,
                                      success + 1, failures)
                      ELSE ReplayFrom(r.st, entries, k + 1, settings, fault,
                                      success, failures + 1))

\* cli.reconcile with clear_spool in a finally clause: the spool is cleared
\* although the replay raised
reconcile_clear_always(st, settings, fault) ==
    Let(ReplayFrom(st, spool_read_all(st), 1, settings, fault, 0, 0), LAMBDA r :
        [r EXCEPT !.st = spool_clear(r.st)])

\* cli.reconcile: replay every spool entry, then clear the spool; clear_spool
\* is not reached when the replay raised
reconcile(st, settings, fault) ==
    Let(ReplayFrom(st, spool_read_all(st), 1, settings, fault, 0, 0), LAMBDA r :
        IF r.raised THEN r ELSE [r EXCEPT !.st = spool_clear(r.st)])

(***************************************************************************)
(* The state machine: one store, one spool file.  The actions below run a  *)
(* whole call at once: one caller at a time.                               *)
(***************************************************************************)
VARIABLES
    turns,        \* the turns table
    memories,     \* the memories table
    memory_fts,   \* the full-text index
    spool,        \* the spool file
    now,          \* the clock
    settings,     \* the Settings the process was started with
    last,         \* the last call: its arguments and what it returned
    submitted,    \* history: the content hashes of the well-formed,
                  \* scope-allowed payloads that ingest_event was called with
    procs         \* the processes that run at the same time on the database
                  \* file, each with its own connection: where each is in
                  \* its call (all idle while one caller runs at a time)

vars == <<turns, memories, memory_fts, spool, now, settings, last, submitted, procs>>

St == [turns |-> turns, memories |-> memories, memory_fts |-> memory_fts,
       spool |-> spool, now |-> now]

SetSt(st) ==
    /\ turns' = st.turns
    /\ memories' = st.memories
    /\ memory_fts' = st.memory_fts
    /\ spool' = st.spool
    /\ now' = st.now

\* bounds of the model
MaxMemories == 2
MaxSpool == 2
MaxClock == 4

(***************************************************************************)
(* Inputs.                                                                 *)
(***************************************************************************)
RootA == <<"/","a">>
RootB == <<"/","b">>

\* Settings: the defaults of config.py with a deny glob; the same with an
\* allow glob that every path matches, the spool switched off and one memory
\* per turn; and an allow glob for /a alone with the spool switched off
SettingsChoices ==
    { [allow_globs |-> <<>>, deny_globs |-> <<<<"/","d","*">>>>,
       max_memories_per_turn |-> 5, spool_enabled |-> TRUE],
      [allow_globs |-> <<<<"/","*">>>>, deny_globs |-> <<<<"/","d","*">>>>,
       max_memories_per_turn |-> 1, spool_enabled |-> FALSE],
      [allow_globs |-> <<<<"/","a","*">>>>, deny_globs |-> <<>>,
       max_memories_per_turn |-> 5, spool_enabled |-> FALSE] }

\* notify payloads, by name
PayloadNames == {"p1", "p1u", "p2", "p3", "p4"}
Payload(name) ==
    CASE name = "p1" ->
            \* hyphenated keys, under the marked directory /a
            [k \in {"thread-id", "turn-id", "cwd", "timestamp", "input-messages",
                    "last-assistant-message"} |->
                CASE k = "thread-id" -> VStr(<<"t","1">>)
                  [] k = "turn-id" -> VStr(<<"1">>)
                  [] k = "cwd" -> VStr(<<"/","a","/","s">>)
                  [] k = "timestamp" -> VInt(1)
                  [] k = "input-messages" -> VList(<<VStr(<<"s","e","e"," ","d","o","c"," ","x",".">>)>>)
                  [] k = "last-assistant-message" -> VStr(<<"W","e"," ","w","i","l","l"," ","u","s","e"," ","a","b",".">>)]
      [] name = "p1u" ->
            \* the same turn with underscored keys, blanks around the texts, a
            \* single input that is not a list and the assistant message a dict
            [k \in {"thread_id", "turn_id", "cwd", "ts_utc", "input_messages",
                    "last_assistant_message"} |->
                CASE k = "thread_id" -> VStr(<<" ","t","1">>)
                  [] k = "turn_id" -> VStr(<<"1">>)
                  [] k = "cwd" -> VStr(<<"/","a","/","s">>)
                  [] k = "ts_utc" -> VInt(1)
                  [] k = "input_messages" -> VStr(<<"s","e","e"," ","d","o","c"," ","x","."," ">>)
                  [] k = "last_assistant_message" ->
                        VDict([c \in {"content", "role"} |->
                                  IF c = "content"
                                  THEN VList(<<VStr(<<"W","e"," ","w","i","l","l"," ","u","s","e"," ","a","b",".">>)>>)
                                  ELSE VAtom("assistant")])]
      [] name = "p2" ->
            \* outside any project, a secret in the input and one in the reply
            [k \in {"thread-id", "turn-id", "cwd", "timestamp", "input-messages",
                    "last-assistant-message"} |->
                CASE k = "thread-id" -> VStr(<<"t","2">>)
                  [] k = "turn-id" -> VStr(<<"1">>)
                  [] k = "cwd" -> VStr(<<"/","b">>)
                  [] k = "timestamp" -> VInt(2)
                  [] k = "input-messages" ->
                        VList(<<VStr(<<"k","e","y"," ","A","K","I","A","0","1","2","3","4","5","6","7","8","9","A","B","C","D","E","F">>)>>)
                  [] k = "last-assistant-message" ->
                        VStr(<<"u","s","e"," ","A","K","I","A","A","B","C","D","E","F","G","H","I","J","K","L","M","N","O","P">>)]
      [] name = "p3" ->
            \* no last assistant message
            [k \in {"thread-id", "turn-id", "cwd", "timestamp"} |->
                CASE k = "thread-id" -> VStr(<<"t","3">>)
                  [] k = "turn-id" -> VStr(<<"1">>)
                  [] k = "cwd" -> VStr(<<"/","a">>)
                  [] k = "timestamp" -> VInt(3)]
      [] name = "p4" ->
            \* a cwd the deny glob rejects
            [k \in {"thread-id", "turn-id", "cwd", "timestamp",
                    "last-assistant-message"} |->
                CASE k = "thread-id" -> VStr(<<"t","4">>)
                  [] k = "turn-id" -> VStr(<<"1">>)
                  [] k = "cwd" -> VStr(<<"/","d">>)
                  [] k = "timestamp" -> VInt(4)
                  [] k = "last-assistant-message" -> VStr(<<"u","s","e"," ","a","b","c">>)]

\* the storage call that fails: none, insert_turn, the first or the second
\* add_memory
Faults == 0..3

\* the calls of ingest_event: every fault for the turns that reach the store,
\* a healthy and a failing store for the others
IngestCalls ==
    ({"p1", "p2"} \X Faults) \cup ({"p1u", "p3", "p4"} \X {0, 1})

\* candidates of direct add_memory calls
Candidates ==
    { [kind |-> "fact", text |-> <<"u","s","e"," ","a","b","c">>, importance |-> 3, tags |-> <<>>],
      [kind |-> "fact", text |-> <<"u","s","e"," ","a","b","c","d">>, importance |-> 3, tags |-> <<>>],
      [kind |-> "fact", text |-> <<" "," ","u","s","e"," ","a","b","c"," "," ">>, importance |-> 3, tags |-> <<>>],
      [kind |-> "decision", text |-> <<"W","e"," ","w","i","l","l"," ","u","s","e"," ","a","b">>, importance |-> 3,
       tags |-> <<>>] }
Scopes == {None, Some(RootA)}

\* texts of update_memory calls
UpdateTexts == {<<"u","s","e"," ","a","b","c">>}

\* what normalisation makes of each payload (the clock is not read: every
\* payload carries its timestamp)
ParsedPayload == [name \in PayloadNames |-> from_event_payload(Payload(name), 0)]
\* whether ingest_event gets past normalisation and the scope filter
WellFormed(name) == ~ParsedPayload[name].raised
Allowed(name, s) == is_allowed(ParsedPayload[name].turn.cwd, s)
\* the content hash ingest_event computes for a well-formed payload
PayloadHash ==
    [name \in {n \in PayloadNames : WellFormed(n)} |->
        content_hash(redact_turn(ParsedPayload[name].turn))]
HashOf(name) == PayloadHash[name]

(***************************************************************************)
(* Initial state and actions.                                              *)
(***************************************************************************)
\* the concurrent processes, and a process that has not started a call
Procs == {1, 2}
Idle ==
    [pc |-> "idle", op |-> "none", payload |-> "", candidates |-> <<>>,
     project_root |-> None, k |-> 0, turn_id |-> None, target |-> None,
     pending |-> None, holds_lock |-> FALSE, extracted |-> FALSE,
     outcome |-> "", ret |-> None]

Init ==
    /\ turns = <<>>
    /\ memories = <<>>
    /\ memory_fts = <<>>
    /\ spool = <<>>
    /\ now = 1
    /\ settings \in SettingsChoices
    /\ last = [op |-> "init"]
    /\ submitted = {}
    /\ procs = [p \in Procs |-> Idle]

\* a call of notify.ingest_event
IngestEvent(name, fault) ==
    /\ Len(memories) < MaxMemories
    /\ Len(spool) < MaxSpool
    /\ now < MaxClock
    /\ \E r \in {ingest_event(St, Payload(name), settings, fault)} :
           /\ SetSt(r.st)
           /\ last' = [op |-> "ingest_event", payload |-> name, fault |-> fault,
                       raised |-> r.raised, ret |-> r.ret, outcome |-> r.outcome,
                       added |-> r.added]
           /\ submitted' = IF WellFormed(name) /\ Allowed(name, settings)
                           THEN submitted \cup {HashOf(name)} ELSE submitted
    /\ UNCHANGED <<settings, procs>>

\* a run of `codex-mem reconcile`
Reconcile(fault) ==
    /\ \E r \in {reconcile(St, settings, fault)} :
           /\ SetSt(r.st)
           /\ last' = [op |-> "reconcile", fault |-> fault, raised |-> r.raised,
                       success |-> r.success, failures |-> r.failures,
                       entries |-> Len(spool)]
    /\ UNCHANGED <<settings, submitted, procs>>

\* a direct call of Store.add_memory (cli add, mem_add), while the table has
\* fewer than max_rows rows
AddMemoryUpTo(max_rows, candidate, project_root) ==
    /\ Len(memories) < max_rows
    /\ now < MaxClock
    /\ \E r \in {add_memory(St, candidate, project_root, None)} :
           /\ SetSt(r.st)
           /\ last' = [op |-> "add_memory", candidate |-> candidate,
                       project_root |-> project_root, ret |-> The(r.ret),
                       inserted |-> Len(r.st.memories) > Len(memories)]
    /\ UNCHANGED <<settings, submitted, procs>>

AddMemory(candidate, project_root) ==
    AddMemoryUpTo(MaxMemories, candidate, project_root)

\* a call of Store.update_memory
UpdateMemory(memory_id, text, importance, is_pinned, tags) ==
    /\ \E r \in {update_memory(St, memory_id, text, importance, is_pinned, tags)} :
           /\ SetSt(r.st)
           /\ last' = [op |-> "update_memory", memory_id |-> memory_id,
                       text |-> text, importance |-> importance,
                       is_pinned |-> is_pinned, tags |-> tags, ret |-> r.ret]
    /\ UNCHANGED <<settings, submitted, procs>>

\* a call of Store.soft_delete
SoftDelete(memory_id) ==
    /\ \E r \in {soft_delete(St, memory_id)} :
           /\ SetSt(r.st)
           /\ last' = [op |-> "soft_delete", memory_id |-> memory_id, ret |-> r.ret]
    /\ UNCHANGED <<settings, submitted, procs>>

\* a call of Store.search
Search(query, project_root, limit, include_global, kinds, tags) ==
    /\ IsPlainQuery(query)
    /\ \E rows \in search(St, query, project_root, limit, include_global, kinds, tags) :
          last' = [op |-> "search", query |-> query, project_root |-> project_root,
                   limit |-> limit, include_global |-> include_global,
                   kinds |-> kinds, tags |-> tags, rows |-> rows]
    /\ UNCHANGED <<turns, memories, memory_fts, spool, now, settings, submitted, procs>>

\* ids of update and delete calls: the rows and one id no row has
MemoryIds == 1..(Len(memories) + 1)

\* the ingestion pipeline and the replay of the spool
NextIngest ==
    \/ \E call \in IngestCalls : IngestEvent(call[1], call[2])
    \/ \E fault \in {0, 1} : Reconcile(fault)

SpecIngest == Init /\ [][NextIngest]_vars

\* the store's write operations, directly and through an ingested turn, for
\* a process started with the default settings
InitStore == Init /\ settings.spool_enabled

NextStore ==
    \/ \E c \in Candidates, s \in Scopes : AddMemory(c, s)
    \/ \E id \in MemoryIds, t \in UpdateTexts : UpdateMemory(id, Some(t), None, None, None)
    \/ \E id \in MemoryIds : SoftDelete(id)
    \/ IngestEvent("p1", 0)

SpecStore == InitStore /\ [][NextStore]_vars

\* the store under add_memory calls with the three decisions of the merge
\* example, and soft_delete
MaxLiteralRows == 3
LiteralTexts ==
    << <<"W","e"," ","w","i","l","l"," ","u","s","e"," ","T","y","p","e","r">>,
       <<"W","e"," ","w","i","l","l"," ","u","s","e"," ","p","y","t","e","s","t">>,
       <<"W","e"," ","w","i","l","l"," ","u","s","e"," ","p","y","t","e","s","t"," ","f","o","r"," ","t","e","s","t","s">> >>
LiteralCandidates ==
    {[kind |-> "decision", text |-> LiteralTexts[k], importance |-> 3, tags |-> <<>>] :
        k \in 1..3}

NextLiteral ==
    \/ \E c \in LiteralCandidates : AddMemoryUpTo(MaxLiteralRows, c, None)
    \/ \E id \in MemoryIds : SoftDelete(id)

SpecLiteral == InitStore /\ [][NextLiteral]_vars

\* the store under add_memory, pinning and search
SearchCandidates ==
    { [kind |-> "fact", text |-> <<"u","s","e"," ","a","b","c">>, importance |-> 5, tags |-> <<"t">>],
      [kind |-> "decision", text |-> <<"u","s","e"," ","a","b","c">>, importance |-> 2, tags |-> <<>>] }
SearchQueries == {<<>>, <<"*">>, <<"u","s","e">>}
SearchRoots == {None, Some(RootA), Some(RootB)}
\* limit, kinds and tags of a search
SearchFilters ==
    { <<5, None, None>>, <<1, None, None>>, <<5, Some(<<"fact">>), None>>,
      <<5, None, Some(<<"t">>)>>, <<1, None, Some(<<"t">>)>> }

NextSearch ==
    \/ \E c \in SearchCandidates, s \in Scopes : AddMemory(c, s)
    \/ \E id \in 1..Len(memories) : UpdateMemory(id, None, None, Some(TRUE), None)
    \/ \E query \in SearchQueries, project_root \in SearchRoots,
          include_global \in BOOLEAN, f \in SearchFilters :
            Search(query, project_root, f[1], include_global, f[2], f[3])

SpecSearch == InitStore /\ [][NextSearch]_vars

(***************************************************************************)
(* Properties of the ingestion pipeline and the spool, under SpecIngest.   *)
(***************************************************************************)
\* the content hashes recorded in a turns table
TurnHashes(t) == {t[i].hash : i \in 1..Len(t)}

\* the content hash of the turn a spool entry holds, from the dumped fields
EntryHash(entry) ==
    LET d == entry["payload"].d
    IN  Join(<<"|">>,
             << Strip(d["thread_id"].s),
                Strip(d["turn_id"].s),
                Strip(d["cwd"].s),
                Strip(d["assistant_message"].d["content"].s),
                json_list([k \in 1..Len(d["input_messages"].l) |->
                              Strip(d["input_messages"].l[k].d["content"].s)]) >>)
SpoolHashes(sp) == {EntryHash(sp[k]) : k \in 1..Len(sp)}

\* the step is a call of ingest_event with a well-formed, scope-allowed payload
IngestStep(fault) ==
    /\ last'.op = "ingest_event"
    /\ last'.fault = fault
    /\ WellFormed(last'.payload)
    /\ Allowed(last'.payload, settings)

\* C1: turn dedup idempotence.  No step removes or changes a turns row; a call
\* of ingest_event with a well-formed, scope-allowed payload against a healthy
\* store raises nothing, returns True and leaves exactly one turns row with
\* the payload's content hash; when a row with that hash was there before the
\* call (the payload was ingested before, whatever happened in between) the
\* call is reported as deduped and the turns table is unchanged.
C1_TurnDedupIdempotence ==
    [][ /\ \A i \in 1..Len(turns) : i <= Len(turns') /\ turns'[i] = turns[i]
        /\ IngestStep(0) =>
              LET h == HashOf(last'.payload)
              IN  /\ ~last'.raised
                  /\ last'.ret = TRUE
                  /\ Cardinality({i \in 1..Len(turns') : turns'[i].hash = h}) = 1
                  /\ h \in TurnHashes(turns) =>
                        last'.outcome = "deduped" /\ turns' = turns ]_vars

\* C1 witness: a second ingestion of a recorded turn has returned True as
\* deduped, through the payload that spells the same turn differently
C1_Witness ==
    /\ last.op = "ingest_event"
    /\ last.payload = "p1u"
    /\ last.fault = 0
    /\ last.outcome = "deduped"
    /\ last.ret = TRUE
    /\ Cardinality({i \in 1..Len(turns) : turns[i].hash = HashOf("p1")}) = 1
    /\ turns[1].thread_id = <<"t", "1">>

\* C2: spool-and-replay.  With the spool enabled, a call of ingest_event whose
\* insert_turn fails appends an entry for the payload to the spool; a replay
\* of a non-empty spool against a healthy store raises nothing, ingests every
\* entry successfully, and a turns row exists afterwards for each of them.
C2_SpoolAndReplay ==
    [][ /\ (IngestStep(1) /\ settings.spool_enabled) =>
              /\ Len(spool') = Len(spool) + 1
              /\ EntryHash(spool'[Len(spool')]) = HashOf(last'.payload)
        /\ (last'.op = "reconcile" /\ last'.fault = 0 /\ spool # <<>>) =>
              /\ ~last'.raised
              /\ last'.success = Len(spool)
              /\ SpoolHashes(spool) \subseteq TurnHashes(turns') ]_vars

\* C3: after a replay pass over a spool that holds entries the spool is
\* empty, whatever happened to each entry.
C3_SpoolEmptyAfterReplay ==
    [][ (last'.op = "reconcile" /\ spool # <<>>) => spool' = <<>> ]_vars

\* C4: no data loss while spool writes succeed.  With the spool enabled,
\* every well-formed, scope-allowed payload ever submitted to ingest_event has
\* its content hash on a turns row or on a spool entry.
C4_NoDataLoss ==
    settings.spool_enabled =>
        submitted \subseteq (TurnHashes(turns) \cup SpoolHashes(spool))

\* C4 witness: a submitted payload is held by the spool alone, a replay pass
\* having run over it
C4_Witness ==
    /\ settings.spool_enabled
    /\ last.op = "reconcile"
    /\ last.entries > 0
    /\ \E h \in submitted : h \notin TurnHashes(turns) /\ h \in SpoolHashes(spool)

(***************************************************************************)
(* Properties of merge-or-insert, under SpecStore.                         *)
(***************************************************************************)
\* the live rows of a memories table
Live(mem) == {i \in 1..Len(mem) : mem[i].is_deleted = 0}

\* two stored texts have a similarity ratio at or above the merge threshold
NearDuplicates(a, b) == similar(a, b) \/ similar(b, a)

\* C5: near-duplicate invariant.  No two live memories of the same kind and
\* scope have texts with a similarity ratio at or above the merge threshold.
C5_NearDuplicateInvariant ==
    \A i, j \in Live(memories) :
        (/\ i < j
         /\ memories[i].kind = memories[j].kind
         /\ memories[i].project_root = memories[j].project_root)
            => ~NearDuplicates(memories[i].text, memories[j].text)

\* C6: repeated add is absorbed.  When add_memory is called twice in a row
\* with the same candidate and scope, the second call returns the id the
\* first call returned and inserts no row.
C6_RepeatedAddAbsorbed ==
    [][ (/\ last.op = "add_memory"
         /\ last'.op = "add_memory"
         /\ last'.candidate = last.candidate
         /\ last'.project_root = last.project_root)
            => (last'.ret = last.ret /\ ~last'.inserted) ]_vars

(***************************************************************************)
(* The merge example with the default threshold, under SpecLiteral.        *)
(***************************************************************************)
\* the texts of the live decisions with null scope
LiveDecisionTexts(mem) ==
    {mem[i].text : i \in {j \in Live(mem) :
                            mem[j].kind = "decision" /\ IsNone(mem[j].project_root)}}

\* the step is add_memory of the k-th text of the example
LiteralAdd(k) ==
    /\ last'.op = "add_memory"
    /\ last'.candidate.text = LiteralTexts[k]

\* C7 as the spec states it: with "We will use Typer" stored, adding "We will
\* use pytest" creates a second row; with both stored, adding "We will use
\* pytest for tests" creates no row and returns the id of the "We will use
\* pytest" row.
C7_LiteralMergesIntoPytest ==
    [][ /\ (LiteralAdd(2) /\ LiveDecisionTexts(memories) = {LiteralTexts[1]})
              => last'.inserted
        /\ (LiteralAdd(3)
            /\ LiveDecisionTexts(memories) = {LiteralTexts[1], LiteralTexts[2]})
              => /\ ~last'.inserted
                 /\ memories[last'.ret].text = LiteralTexts[2] ]_vars

\* C7 as the code computes it: the ratio of "We will use pytest" to "We will
\* use Typer" is 28/35 = 0.8, below 0.82, so the second row is created; the
\* ratio of "We will use pytest for tests" to "We will use pytest" is
\* 36/46 = 0.78, below 0.82 too, so that candidate is inserted as a row of its
\* own and neither stored text changes.
C7_LiteralInsertsThirdRow ==
    [][ /\ (LiteralAdd(2) /\ LiveDecisionTexts(memories) = {LiteralTexts[1]})
              => /\ last'.inserted
                 /\ Len(memories') = Len(memories) + 1
        /\ (LiteralAdd(3)
            /\ LiveDecisionTexts(memories) = {LiteralTexts[1], LiteralTexts[2]})
              => /\ last'.inserted
                 /\ last'.ret = Len(memories) + 1
                 /\ LiveDecisionTexts(memories') =
                        {LiteralTexts[1], LiteralTexts[2], LiteralTexts[3]} ]_vars

\* C7 witness: the three texts of the example are three live rows, added in
\* the example's order
C7_Witness ==
    /\ Len(memories) = 3
    /\ \A k \in 1..3 : memories[k].text = LiteralTexts[k] /\ memories[k].is_deleted = 0
    /\ last.op = "add_memory"
    /\ last.candidate.text = LiteralTexts[3]
    /\ last.inserted

(***************************************************************************)
(* Properties of Store.search, under SpecSearch.  A search leaves the      *)
(* store as it is, so in a state whose last call is a search, memories is  *)
(* the table that was searched.                                            *)
(***************************************************************************)
\* the last call is a search
Searched == last.op = "search"

\* the ids of the rows a search returned
ReturnedIds == {last.rows[k].id : k \in 1..Len(last.rows)}

\* C8: scope isolation.  A search called with a project root never returns a
\* memory whose scope is another project root, whatever the query, limit,
\* kinds, tags and include_global.
C8_ScopeIsolation ==
    (Searched /\ ~IsNone(last.project_root)) =>
        \A k \in 1..Len(last.rows) :
            \/ IsNone(last.rows[k].project_root)
            \/ last.rows[k].project_root = last.project_root

\* C8 witness: a search for /b with include_global returns the global row
\* and leaves out the live row of /a
C8_Witness ==
    /\ Searched
    /\ last.project_root = Some(RootB)
    /\ last.include_global
    /\ last.rows # <<>>
    /\ \E i \in 1..Len(memories) :
          /\ memories[i].is_deleted = 0
          /\ memories[i].project_root = Some(RootA)
          /\ i \notin ReturnedIds

\* the row passes the kind filter of the last search
KindOk(m) ==
    (~IsNone(last.kinds) /\ The(last.kinds) # <<>>)
        => \E k \in 1..Len(The(last.kinds)) : m.kind = The(last.kinds)[k]

\* the row passes the query of the last search: every term of the query is a
\* word of one of the row's indexed columns
QueryOk(m) ==
    use_fts(last.query) =>
        \A t \in QueryTerms(last.query) : \E e \in RowEntries(m) : e.tok = t

\* the row passes the tag filter of the last search
TagOk(m) ==
    (~IsNone(last.tags) /\ The(last.tags) # <<>>)
        => /\ ~IsNone(m.tags_json)
           /\ \A k \in 1..Len(The(last.tags)) :
                 \E j \in 1..Len(The(m.tags_json)) :
                     The(m.tags_json)[j] = The(last.tags)[k]

\* the row is in the scope of the last search
ScopeOk(m) ==
    IF IsNone(last.project_root)
    THEN last.include_global \/ ~IsNone(m.project_root)
    ELSE \/ m.project_root = last.project_root
         \/ last.include_global /\ IsNone(m.project_root)

\* row a is ranked ahead of row b in every order the last search can use
RankedAhead(a, b) ==
    \/ a.is_pinned > b.is_pinned
    \/ /\ a.is_pinned = b.is_pinned
       /\ \/ a.importance > b.importance
          \/ /\ a.importance = b.importance
             /\ ~use_fts(last.query)
             /\ a.ts_utc > b.ts_utc

\* the row fits within the limit of the last search: fewer than limit of the
\* other live rows in scope that pass the kind filter and the query can be
\* ranked ahead of it or level with it
FitsLimit(i) ==
    Cardinality({j \in Live(memories) \ {i} :
                    /\ ScopeOk(memories[j])
                    /\ KindOk(memories[j])
                    /\ QueryOk(memories[j])
                    /\ ~RankedAhead(memories[i], memories[j])}) < last.limit

\* C9: global visibility.  With include_global, a live memory with null scope
\* that passes the query, kind and tag filters and fits within the limit is
\* returned, for every requested project root and for none; without
\* include_global no memory with null scope is returned.
C9_GlobalVisibility ==
    Searched =>
        IF last.include_global
        THEN \A i \in Live(memories) :
                (/\ IsNone(memories[i].project_root)
                 /\ KindOk(memories[i])
                 /\ QueryOk(memories[i])
                 /\ TagOk(memories[i])
                 /\ FitsLimit(i)) => i \in ReturnedIds
        ELSE \A k \in 1..Len(last.rows) : ~IsNone(last.rows[k].project_root)

\* C9 witness: a search for /a with include_global, a query, a tag and
\* limit 1 returns the global row, a live row of /a being in the table too
C9_Witness ==
    /\ Searched
    /\ last.project_root = Some(RootA)
    /\ last.include_global
    /\ last.limit = 1
    /\ use_fts(last.query)
    /\ ~IsNone(last.tags)
    /\ Len(last.rows) = 1
    /\ IsNone(last.rows[1].project_root)
    /\ \E i \in Live(memories) : memories[i].project_root = Some(RootA)

\* C10: ranking order.  In every list search returns, each row's
\* (is_pinned, importance) pair is lexicographically at or above the pair of
\* the row after it; with an empty or "*" query, rows with equal pairs are in
\* descending timestamp order.  Lists that went through the tag filter are
\* lists search returns.
C10_RankingOrder ==
    Searched =>
        \A k \in 1..(Len(last.rows) - 1) :
            LET a == last.rows[k]
                b == last.rows[k + 1]
            IN  /\ \/ a.is_pinned > b.is_pinned
                   \/ a.is_pinned = b.is_pinned /\ a.importance >= b.importance
                /\ (/\ ~use_fts(last.query)
                    /\ a.is_pinned = b.is_pinned
                    /\ a.importance = b.importance) => a.ts_utc >= b.ts_utc

\* C10 witness: a matched query returns the pinned row of importance 2 ahead
\* of the unpinned row of importance 5
C10_Witness ==
    /\ Searched
    /\ use_fts(last.query)
    /\ Len(last.rows) = 2
    /\ last.rows[1].is_pinned = 1 /\ last.rows[1].importance = 2
    /\ last.rows[2].is_pinned = 0 /\ last.rows[2].importance = 5


(***************************************************************************)
(* The full-text index against the memories table, under SpecStore.        *)
(***************************************************************************)
\* C11: full-text index consistency.  For every memories row the index holds
\* the entries of exactly that row's current text, scope and kind: none is
\* missing and none is left from a text the row no longer has.
C11_IndexAgreesWithTable ==
    /\ Len(memory_fts) = Len(memories)
    /\ \A id \in 1..Len(memories) : memory_fts[id] = RowEntries(memories[id])


(***************************************************************************)
(* The outcomes of ingest_event, under SpecIngest.                         *)
(***************************************************************************)
\* the database tables are as they were
TablesUnchanged ==
    /\ turns' = turns
    /\ memories' = memories
    /\ memory_fts' = memory_fts

\* C12: storage failure on insert_turn.  When insert_turn raises a
\* storage-operational error, ingest_event inserts no turns row (there is no
\* second attempt), calls no add_memory, appends exactly one spool entry for
\* the payload when the spool is enabled and none otherwise, returns False
\* with outcome spooled and raises nothing.
C12_InsertFailureSpoolsOnce ==
    [][ IngestStep(1) =>
            /\ ~last'.raised
            /\ last'.ret = FALSE
            /\ last'.outcome = "spooled"
            /\ last'.added = 0
            /\ TablesUnchanged
            /\ IF settings.spool_enabled
               THEN /\ Len(spool') = Len(spool) + 1
                    /\ SubSeq(spool', 1, Len(spool)) = spool
                    /\ EntryHash(spool'[Len(spool')]) = HashOf(last'.payload)
               ELSE spool' = spool ]_vars

\* C12 witness: insert_turn failed for p1 on an empty store with the spool
\* enabled; the spool holds the one entry and the tables are empty
C12_Witness ==
    /\ last.op = "ingest_event"
    /\ last.payload = "p1"
    /\ last.fault = 1
    /\ last.outcome = "spooled"
    /\ settings.spool_enabled
    /\ Len(spool) = 1
    /\ turns = <<>>
    /\ memories = <<>>


\* the cwd fails the glob check: the allow list is not empty and none of its
\* patterns matches, or a deny pattern matches
FailsGlobCheck(cwd, s) ==
    \/ /\ s.allow_globs # <<>>
       /\ \A k \in 1..Len(s.allow_globs) : ~fnmatch(cwd, s.allow_globs[k])
    \/ \E k \in 1..Len(s.deny_globs) : fnmatch(cwd, s.deny_globs[k])

\* the step is ingest_event of a well-formed payload whose cwd fails the check
FilteredStep ==
    /\ last'.op = "ingest_event"
    /\ WellFormed(last'.payload)
    /\ FailsGlobCheck(ParsedPayload[last'.payload].turn.cwd, settings)

\* C13: filtered-out leaves no trace.  When the payload's cwd fails the
\* allow/deny glob check, ingest_event returns False and writes nothing: the
\* turns table, the memories table, the index and the spool are unchanged,
\* whether the store is healthy or not.
C13_FilteredOutLeavesNoTrace ==
    [][ FilteredStep =>
            /\ ~last'.raised
            /\ last'.ret = FALSE
            /\ last'.outcome = "filtered_out"
            /\ TablesUnchanged
            /\ spool' = spool ]_vars

\* C13 witness: p2, under /b, was rejected by the allow list /a* after p1 had
\* been stored
C13_Witness ==
    /\ last.op = "ingest_event"
    /\ last.payload = "p2"
    /\ last.outcome = "filtered_out"
    /\ settings.allow_globs = <<<<"/","a","*">>>>
    /\ Len(turns) = 1
    /\ spool = <<>>


\* the payload has no assistant message: neither key holds a value that
\* `or` keeps
NoAssistantMessage(payload) ==
    /\ ~Truthy(Get(payload, "last-assistant-message"))
    /\ Get(payload, "last_assistant_message") = VNone

\* C14: an input error is fatal and never spooled.  A payload with no
\* assistant message makes ingest_event raise before any storage access: the
\* tables, the index and the spool are unchanged.  The same holds in a replay
\* whose entry has no assistant message: the pass raises and writes nothing.
C14_InputErrorWritesNothing ==
    [][ /\ (last'.op = "ingest_event" /\ NoAssistantMessage(Payload(last'.payload)))
              => /\ last'.raised
                 /\ last'.outcome = "input_error"
                 /\ TablesUnchanged
                 /\ spool' = spool
        /\ (/\ last'.op = "reconcile"
            /\ spool # <<>>
            /\ Truthy(Get(spool[1], "payload"))
            /\ NoAssistantMessage(Get(spool[1], "payload").d))
              => /\ last'.raised
                 /\ TablesUnchanged
                 /\ spool' = spool ]_vars

\* C14 witness: p3, which has no last assistant message, raised with a turn
\* already stored; nothing was added to the tables or the spool
C14_Witness ==
    /\ last.op = "ingest_event"
    /\ last.payload = "p3"
    /\ last.raised
    /\ Len(turns) = 1
    /\ spool = <<>>


\* the candidates the extractor finds in the payload's redacted turn
CandidatesOf(name, s) == extract_memories(redact_turn(ParsedPayload[name].turn), s)

\* C15: accepted outcome.  ingest_event of a well-formed, scope-allowed
\* payload whose content hash is not recorded, on a healthy store, returns
\* True, inserts exactly one turns row (with that hash), calls add_memory for
\* every extracted candidate, and every memories row the call inserts has the
\* new turns row's id as source_turn_id.
C15_AcceptedOutcome ==
    [][ (IngestStep(0) /\ HashOf(last'.payload) \notin TurnHashes(turns)) =>
            /\ ~last'.raised
            /\ last'.ret = TRUE
            /\ last'.outcome = "accepted"
            /\ Len(turns') = Len(turns) + 1
            /\ SubSeq(turns', 1, Len(turns)) = turns
            /\ turns'[Len(turns')].hash = HashOf(last'.payload)
            /\ last'.added = Len(CandidatesOf(last'.payload, settings))
            /\ Len(memories') >= Len(memories)
            /\ \A i \in (Len(memories) + 1)..Len(memories') :
                  memories'[i].source_turn_id = Some(turns'[Len(turns')].id) ]_vars

\* C15 witness: p1 was accepted as the second turn; its two candidates were
\* added and the rows they inserted point at turns row 2
C15_Witness ==
    /\ last.op = "ingest_event"
    /\ last.payload = "p1"
    /\ last.outcome = "accepted"
    /\ last.added = 2
    /\ Len(turns) = 2
    /\ Len(memories) >= 2
    /\ memories[Len(memories)].source_turn_id = Some(2)
    /\ memories[Len(memories) - 1].source_turn_id = Some(2)


(***************************************************************************)
(* update_memory, under SpecUpdate: two memories of different kinds and    *)
(* update calls with no field, with one field and with two.                *)
(***************************************************************************)
UpdateCandidates ==
    { [kind |-> "fact", text |-> <<"u","s","e"," ","a","b","c">>, importance |-> 3, tags |-> <<>>],
      [kind |-> "decision", text |-> <<"W","e"," ","w","i","l","l"," ","u","s","e"," ","a","b">>, importance |-> 3,
       tags |-> <<"t">>] }

\* text, importance, is_pinned and tags of an update_memory call
UpdateCalls ==
    { <<None, None, None, None>>,
      <<Some(<<"u","s","e"," ","x","y","z">>), None, None, None>>,
      <<None, Some(5), Some(TRUE), None>>,
      <<None, None, Some(FALSE), None>>,
      <<None, None, None, Some(<<>>)>> }

NextUpdate ==
    \/ \E c \in UpdateCandidates : AddMemory(c, None)
    \/ \E id \in MemoryIds, u \in UpdateCalls : UpdateMemory(id, u[1], u[2], u[3], u[4])

SpecUpdate == InitStore /\ [][NextUpdate]_vars

\* the row after an update call with the fields of the last call applied to
\* the row before it
RowWithFields(row, call) ==
    [id |-> row.id,
     ts_utc |-> row.ts_utc,
     project_root |-> row.project_root,
     kind |-> row.kind,
     text |-> IF IsNone(call.text) THEN row.text ELSE The(call.text),
     source_turn_id |-> row.source_turn_id,
     importance |-> IF IsNone(call.importance) THEN row.importance
                    ELSE The(call.importance),
     is_pinned |-> IF IsNone(call.is_pinned) THEN row.is_pinned
                   ELSE IF The(call.is_pinned) THEN 1 ELSE 0,
     is_deleted |-> row.is_deleted,
     tags_json |-> IF IsNone(call.tags) THEN row.tags_json ELSE Some(The(call.tags))]

\* the call names no field
NoFieldGiven(call) ==
    IsNone(call.text) /\ IsNone(call.importance) /\ IsNone(call.is_pinned)
        /\ IsNone(call.tags)

\* C16: update_memory applies only the provided fields.  On an existing id
\* the row gets exactly the fields given and keeps the others, and no other
\* row changes; with no field given it returns false and changes nothing;
\* with an unknown id it returns false and changes nothing.
C16_UpdateAppliesGivenFields ==
    [][ last'.op = "update_memory" =>
            /\ Len(memories') = Len(memories)
            /\ turns' = turns
            /\ spool' = spool
            /\ IF NoFieldGiven(last') \/ last'.memory_id \notin 1..Len(memories)
               THEN last'.ret = FALSE /\ memories' = memories
               ELSE /\ last'.ret = TRUE
                    /\ \A j \in 1..Len(memories) :
                          memories'[j] = IF j = last'.memory_id
                                         THEN RowWithFields(memories[j], last')
                                         ELSE memories[j] ]_vars

\* C16 witness: row 1, pinned with importance 5 by an earlier call, was
\* unpinned by an update that gave is_pinned alone; its importance and row 2
\* stayed
C16_Witness ==
    /\ last.op = "update_memory"
    /\ last.memory_id = 1
    /\ last.is_pinned = Some(FALSE)
    /\ IsNone(last.importance)
    /\ last.ret
    /\ Len(memories) = 2
    /\ memories[1].is_pinned = 0
    /\ memories[1].importance = 5
    /\ memories[2].is_pinned = 1


(***************************************************************************)
(* soft_delete, under SpecStore.                                           *)
(***************************************************************************)
\* C17: soft_delete returns true exactly when a memories row has the id,
\* deleted already or not; it sets that row's is_deleted and keeps the row
\* with its other fields and every other row; for an unknown id it returns
\* false and changes nothing.  No step of any operation removes a row.
C17_SoftDeleteKeepsRow ==
    [][ /\ Len(memories') >= Len(memories)
        /\ last'.op = "soft_delete" =>
              /\ last'.ret = (last'.memory_id \in 1..Len(memories))
              /\ Len(memories') = Len(memories)
              /\ \A j \in 1..Len(memories) :
                    memories'[j] = IF j = last'.memory_id
                                   THEN [memories[j] EXCEPT !.is_deleted = 1]
                                   ELSE memories[j]
              /\ turns' = turns
              /\ spool' = spool ]_vars

\* C17 witness: soft_delete returned true for row 1, which is kept with its
\* text and flagged deleted, beside a live row 2
C17_Witness ==
    /\ last.op = "soft_delete"
    /\ last.memory_id = 1
    /\ last.ret
    /\ Len(memories) = 2
    /\ memories[1].is_deleted = 1
    /\ memories[1].text # <<>>
    /\ memories[2].is_deleted = 0


(***************************************************************************)
(* Redaction, under SpecIngest.  Payload p2 carries an AWS access key in   *)
(* its input message and another in the reply.                             *)
(***************************************************************************)
\* the secrets of p2
Secrets == {<<"A","K","I","A","0","1","2","3","4","5","6","7","8","9","A","B","C","D","E","F">>, <<"A","K","I","A","A","B","C","D","E","F","G","H","I","J","K","L","M","N","O","P">>}

\* the text holds none of the secrets
SecretFree(text) == \A s \in Secrets : ~Contains(s, text)

\* the message texts the database and the spool hold
StoredTexts ==
    {turns[i].assistant_message : i \in 1..Len(turns)}
    \cup UNION {{turns[i].input_messages[k].content :
                    k \in 1..Len(turns[i].input_messages)} : i \in 1..Len(turns)}
    \cup {memories[i].text : i \in 1..Len(memories)}
    \cup {spool[i]["payload"].d["assistant_message"].d["content"].s : i \in 1..Len(spool)}
    \cup UNION {{spool[i]["payload"].d["input_messages"].l[k].d["content"].s :
                    k \in 1..Len(spool[i]["payload"].d["input_messages"].l)} :
                        i \in 1..Len(spool)}

\* C18: redaction precedes storage.  No message text that ingest_event has
\* written to the turns table, to a memory or to the spool holds a secret of
\* the payload it came from: each is the redacted text.
C18_StoredTextsRedacted == \A text \in StoredTexts : SecretFree(text)

\* C18 witness: p2 is stored as a turn with both of its texts redacted, and
\* the memory derived from it holds the markers in place of the keys
C18_Witness ==
    /\ \E i \in 1..Len(turns) :
          /\ turns[i].assistant_message = <<"u","s","e"," ","[","R","E","D","A","C","T","E","D",":","A","W","S","_","K","E","Y","]">>
          /\ turns[i].input_messages[1].content = <<"k","e","y"," ","[","R","E","D","A","C","T","E","D",":","A","W","S","_","K","E","Y","]">>
    /\ \E i \in 1..Len(memories) : Contains(<<"u","s","e"," ","[","R","E","D","A","C","T","E","D",":","A","W","S","_","K","E","Y","]">>, memories[i].text)


(***************************************************************************)
(* The tag filter, under SpecTags: memories with no tag, one tag and two   *)
(* tags, and searches that ask for one tag, for two and for none.          *)
(***************************************************************************)
TagCandidates ==
    { [kind |-> "fact", text |-> <<"u","s","e"," ","a","b","c">>, importance |-> 3, tags |-> <<>>],
      [kind |-> "decision", text |-> <<"W","e"," ","w","i","l","l"," ","u","s","e"," ","a","b">>, importance |-> 3,
       tags |-> <<"t">>],
      [kind |-> "todo", text |-> <<"n","e","x","t"," ","s","t","e","p">>, importance |-> 3,
       tags |-> <<"u", "t">>] }

\* the tags of a search
TagRequests ==
    {None, Some(<<>>), Some(<<"t">>), Some(<<"u">>), Some(<<"t", "u">>),
     Some(<<"t", "v">>)}

NextTags ==
    \/ \E c \in TagCandidates : AddMemory(c, None)
    \/ \E id \in 1..Len(memories) : UpdateMemory(id, None, None, None, Some(<<>>))
    \/ \E tags \in TagRequests, limit \in {1, 5} :
          Search(<<>>, None, limit, TRUE, None, tags)

SpecTags == InitStore /\ [][NextTags]_vars

\* C19: the tag filter has AND semantics.  When search is given a non-empty
\* tag list, every returned row's stored tags include every requested tag; a
\* row that lacks one of them, or has no tags, is not returned.
C19_TagFilterIsConjunctive ==
    (Searched /\ ~IsNone(last.tags) /\ The(last.tags) # <<>>) =>
        \A k \in 1..Len(last.rows) :
            /\ ~IsNone(last.rows[k].tags_json)
            /\ \A t \in {The(last.tags)[i] : i \in 1..Len(The(last.tags))} :
                  t \in {The(last.rows[k].tags_json)[j] :
                            j \in 1..Len(The(last.rows[k].tags_json))}

\* C19 witness: a search for the tags t and u returned the row tagged u, t
\* and left out the live row tagged t alone
C19_Witness ==
    /\ Searched
    /\ last.tags = Some(<<"t", "u">>)
    /\ Len(last.rows) = 1
    /\ last.rows[1].tags_json = Some(<<"u", "t">>)
    /\ \E i \in Live(memories) : memories[i].tags_json = Some(<<"t">>)


(***************************************************************************)
(* A storage failure in the candidate loop and the replay of its spool     *)
(* entry, under SpecIngest.                                                *)
(***************************************************************************)
\* the candidate is represented by a live memory of its kind whose text
\* holds the candidate's text
Represented(c, mem) ==
    \E i \in Live(mem) : mem[i].kind = c.kind /\ Contains(Strip(c.text), mem[i].text)

\* the payloads whose turn is on the spool
SpooledPayloads(sp) ==
    {name \in {n \in PayloadNames : WellFormed(n)} : HashOf(name) \in SpoolHashes(sp)}

\* C20: partial-failure replay.  When the k-th add_memory of a turn fails
\* with a storage error, ingest_event has added the candidates before it,
\* spools the payload, stops and returns False.  When the spool is then
\* replayed against a healthy store, every candidate of every such turn (it
\* is on the spool and has its turns row) is represented by a live memory
\* afterwards, and no candidate is stored twice.
C20_PartialFailureReplay ==
    [][ /\ (/\ IngestStep(last'.fault)
            /\ last'.fault >= 2
            /\ last'.fault - 1 <= Len(CandidatesOf(last'.payload, settings))
            /\ HashOf(last'.payload) \notin TurnHashes(turns))
              => /\ last'.ret = FALSE
                 /\ last'.outcome = "spooled"
                 /\ last'.added = last'.fault - 2
                 /\ settings.spool_enabled =>
                       /\ Len(spool') = Len(spool) + 1
                       /\ EntryHash(spool'[Len(spool')]) = HashOf(last'.payload)
        /\ (last'.op = "reconcile" /\ last'.fault = 0)
              => \A name \in {n \in SpooledPayloads(spool) :
                                   HashOf(n) \in TurnHashes(turns)} :
                    LET cands == CandidatesOf(name, settings)
                    IN  \A k \in 1..Len(cands) :
                           /\ Represented(cands[k], memories')
                           /\ Cardinality({i \in Live(memories') :
                                   Contains(Strip(cands[k].text), memories'[i].text)}) = 1
       ]_vars


(***************************************************************************)
(* The merge of add_memory, under SpecMerge: global facts that are similar *)
(* to one another or not, one of them with blanks around it, and an        *)
(* update_memory that leaves a blank at the end of a stored text.          *)
(***************************************************************************)
MaxMergeRows == 3

\* "use abxy" is not similar to "use abcd" (ratio 0.75); "use abcdy" is
\* similar to both (0.94 and 0.82); "  use abcd " is similar to "use abcd"
\* (0.84) and is a part of it once stripped
MergeCandidates ==
    {[kind |-> "fact", text |-> t, importance |-> 3, tags |-> <<>>] :
        t \in {<<"u","s","e"," ","a","b","c","d">>, <<"u","s","e"," ","a","b","x","y">>, <<"u","s","e"," ","a","b","c","d","y">>, <<" "," ","u","s","e"," ","a","b","c","d"," ">>}}

MergeUpdateTexts == {<<"u","s","e"," ","a","b","c","d"," ">>}

NextMerge ==
    \/ \E c \in MergeCandidates : AddMemoryUpTo(MaxMergeRows, c, None)
    \/ \E id \in 1..Len(memories), t \in MergeUpdateTexts :
          UpdateMemory(id, Some(t), None, None, None)

SpecMerge == InitStore /\ [][NextMerge]_vars

\* the step is an add_memory call that found a similar row
MergeStep == last'.op = "add_memory" /\ ~last'.inserted

Eligible(mem, candidate, project_root) ==
    {i \in Live(mem) : mem[i].kind = candidate.kind
                          /\ mem[i].project_root = project_root}

\* the row is among the MergeWindow newest eligible rows
InWindow(mem, candidate, project_root, i) ==
    /\ i \in Eligible(mem, candidate, project_root)
    /\ Cardinality({j \in Eligible(mem, candidate, project_root) :
                       mem[j].ts_utc > mem[i].ts_utc}) < MergeWindow

\* the rows of the window that are similar to the candidate
WindowMatches(mem, candidate, project_root) ==
    {i \in 1..Len(mem) : /\ InWindow(mem, candidate, project_root, i)
                         /\ similar(candidate.text, mem[i].text)}

\* C22: first match wins, newest first.  When rows of the merge window are
\* similar to the candidate, add_memory amends exactly one of them, the one
\* with the latest timestamp, whatever the ratios of the older ones; every
\* other row is left as it was.
C22_NewestMatchWins ==
    [][ last'.op = "add_memory" =>
            LET hits == WindowMatches(memories, last'.candidate, last'.project_root)
            IN  /\ (hits # {}) = ~last'.inserted
                /\ hits # {} =>
                      /\ last'.ret \in hits
                      /\ \A j \in hits : memories[j].ts_utc <= memories[last'.ret].ts_utc
                      /\ memories'[last'.ret] # memories[last'.ret]
                      /\ \A j \in 1..Len(memories) :
                            j # last'.ret => memories'[j] = memories[j] ]_vars

\* C22 witness: "use abcdy" came when the older row 1 held "use abcd" (ratio
\* 0.94) and the newer row 2 held "use abxy" (ratio 0.82); row 2 was amended
\* and row 1 was not
C22_Witness ==
    /\ last.op = "add_memory"
    /\ last.candidate.text = <<"u","s","e"," ","a","b","c","d","y">>
    /\ last.ret = 2
    /\ Len(memories) = 2
    /\ memories[1].text = <<"u","s","e"," ","a","b","c","d">>
    /\ memories[2].text = <<"u","s","e"," ","a","b","x","y","\n","-"," ","u","s","e"," ","a","b","c","d","y">>
    /\ memories[1].ts_utc < memories[2].ts_utc
    /\ RatioAtLeast(<<"u","s","e"," ","a","b","c","d","y">>, <<"u","s","e"," ","a","b","c","d">>, 94, 100)
    /\ ~RatioAtLeast(<<"u","s","e"," ","a","b","c","d","y">>, <<"u","s","e"," ","a","b","x","y">>, 83, 100)


(***************************************************************************)
(* The merge window, under SpecWindow: a caller that keeps adding global   *)
(* facts it has not added before, so that a fact can leave the window of   *)
(* its kind and scope, and the same statement added as a global fact, as a *)
(* global decision and as a fact of project /a, and soft-deleted.          *)
(***************************************************************************)
MaxWindowRows == 10
MaxWindowClock == 11
MaxStatementRows == 2

\* a direct call of Store.add_memory, while the table has fewer than
\* max_rows rows and the clock is below max_clock
AddMemoryWithin(max_rows, max_clock, candidate, project_root) ==
    /\ Len(memories) < max_rows
    /\ now < max_clock
    /\ \E r \in {add_memory(St, candidate, project_root, None)} :
           /\ SetSt(r.st)
           /\ last' = [op |-> "add_memory", candidate |-> candidate,
                       project_root |-> project_root, ret |-> The(r.ret),
                       inserted |-> Len(r.st.memories) > Len(memories)]
    /\ UNCHANGED <<settings, submitted, procs>>

\* the k-th new fact: one character, so that no two of them are similar
\* (ratio 0) and none is similar to the statement
FreshTexts == <<"0", "1", "2", "3", "4", "5", "6", "7", "8", "9", "x", "y">>
FreshFact(k) ==
    [kind |-> "fact", text |-> <<FreshTexts[k]>>, importance |-> 3, tags |-> <<>>]

\* the statement, as a fact and as a decision
Statement == <<"u","s","e"," ","a","b","c">>
StatementCandidates ==
    {[kind |-> k, text |-> Statement, importance |-> 3, tags |-> <<>>] :
        k \in {"fact", "decision"}}
\* the scopes it is added with
StatementCalls ==
    {<<"fact", None>>, <<"decision", None>>, <<"fact", Some(RootA)>>}

\* the rows that hold the statement
StatementRows(mem) == {i \in 1..Len(mem) : Contains(Statement, mem[i].text)}

NextWindow ==
    \/ \E k \in 1..MaxWindowRows :
          /\ k = Len(memories) + 1
          /\ AddMemoryWithin(MaxWindowRows, MaxWindowClock, FreshFact(k), None)
    \/ \E c \in StatementCandidates, s \in Scopes :
          /\ <<c.kind, s>> \in StatementCalls
          /\ Cardinality(StatementRows(memories)) < MaxStatementRows
          /\ AddMemoryWithin(MaxWindowRows, MaxWindowClock, c, s)
    \/ \E id \in StatementRows(memories) : SoftDelete(id)

SpecWindow == InitStore /\ [][NextWindow]_vars

\* C23: merge targets are scope-exact and live.  A row that an add_memory
\* call changes is live, has the candidate's kind, has exactly the
\* candidate's scope (no scope matching no scope only) and is among the
\* MergeWindow newest rows with these three properties; it is the row whose
\* id the call returns.  Deleted rows and rows of another kind or scope are
\* left as they were.
C23_MergeTargetInWindow ==
    [][ last'.op = "add_memory" =>
            \A j \in 1..Len(memories) :
                memories'[j] # memories[j] =>
                    /\ j = last'.ret
                    /\ memories[j].is_deleted = 0
                    /\ memories[j].kind = last'.candidate.kind
                    /\ memories[j].project_root = last'.project_root
                    /\ InWindow(memories, last'.candidate, last'.project_root, j)
      ]_vars

\* C23 witness: the statement was added as a global fact and merged into the
\* oldest row of a full window: row 1, which had seven newer global facts
\* after it and is the newest row now
C23_Witness ==
    /\ last.op = "add_memory"
    /\ ~last.inserted
    /\ last.ret = 1
    /\ last.candidate.kind = "fact"
    /\ IsNone(last.project_root)
    /\ Len(memories) = MergeWindow
    /\ \A j \in 1..Len(memories) :
          /\ memories[j].is_deleted = 0
          /\ memories[j].kind = "fact"
          /\ IsNone(memories[j].project_root)
          /\ memories[j].ts_utc <= memories[1].ts_utc
    /\ memories[1].ts_utc = MergeWindow + 1


(***************************************************************************)
(* The per-turn cap, under SpecCap: the ingestion pipeline of a process    *)
(* started with max_memories_per_turn 0, 1, 2 or 5.  Payload p1 has two    *)
(* sentences that classify, p2 has one.                                    *)
(***************************************************************************)
\* values of CODEX_MEM_MAX_PER_TURN: _parse_int takes any integer literal
CapValues == {0, 1, 2, 5}

CapSettings ==
    {[allow_globs |-> <<>>, deny_globs |-> <<<<"/","d","*">>>>,
      max_memories_per_turn |-> n, spool_enabled |-> TRUE] : n \in CapValues}

InitCap ==
    /\ turns = <<>>
    /\ memories = <<>>
    /\ memory_fts = <<>>
    /\ spool = <<>>
    /\ now = 1
    /\ settings \in CapSettings
    /\ last = [op |-> "init"]
    /\ submitted = {}
    /\ procs = [p \in Procs |-> Idle]

SpecCap == InitCap /\ [][NextIngest]_vars

\* C24: per-turn candidate cap.  For every turn and every configured
\* max_memories_per_turn, 0 included, extraction returns at most that many
\* candidates and one ingest_event call makes at most that many add_memory
\* calls.
C24_PerTurnCap ==
    last.op = "ingest_event" =>
        /\ last.added <= settings.max_memories_per_turn
        /\ WellFormed(last.payload) =>
              Len(CandidatesOf(last.payload, settings)) <= settings.max_memories_per_turn


(***************************************************************************)
(* Soft-deleted rows, under SpecTombstone: the store's write operations,   *)
(* an ingested turn, searches and stats.                                   *)
(***************************************************************************)
\* Store.stats: the groups of the live rows by kind and project_root with
\* their counts (in no particular order), and the latest turn timestamp
stats(st) ==
    LET live == {i \in 1..Len(st.memories) : st.memories[i].is_deleted = 0}
        groups == {<<st.memories[i].kind, st.memories[i].project_root>> : i \in live}
    IN  [counts |-> {[kind |-> g[1], project_root |-> g[2],
                      count |-> Cardinality({i \in live :
                                    /\ st.memories[i].kind = g[1]
                                    /\ st.memories[i].project_root = g[2]})] :
                        g \in groups},
         last_ingest |-> IF st.turns = <<>> THEN None
                         ELSE Some(SetMax({st.turns[i].ts_utc : i \in 1..Len(st.turns)}))]

\* a call of Store.stats (mem_stats)
Stats ==
    /\ \E r \in {stats(St)} :
          last' = [op |-> "stats", counts |-> r.counts, last_ingest |-> r.last_ingest]
    /\ UNCHANGED <<turns, memories, memory_fts, spool, now, settings, submitted, procs>>

TombstoneCandidates ==
    {[kind |-> "fact", text |-> t, importance |-> 3, tags |-> <<>>] :
        t \in {<<"u","s","e"," ","a","b","c","d">>, <<"u","s","e"," ","x","y","z">>}}

\* query, project_root and include_global of a search
TombstoneSearches ==
    { <<<<"u","s","e">>, None, TRUE>>, <<<<>>, Some(RootA), FALSE>> }

NextTombstone ==
    \/ \E c \in TombstoneCandidates, s \in Scopes : AddMemory(c, s)
    \/ \E id \in MemoryIds, t \in UpdateTexts : UpdateMemory(id, Some(t), None, None, None)
    \/ \E id \in MemoryIds : SoftDelete(id)
    \/ IngestEvent("p1", 0)
    \/ \E q \in TombstoneSearches : Search(q[1], q[2], 5, q[3], None, None)
    \/ Stats

SpecTombstone == InitStore /\ [][NextTombstone]_vars

\* the soft-deleted rows
Tombstones(mem) == {i \in 1..Len(mem) : mem[i].is_deleted = 1}

\* C26: tombstones are permanent and invisible.  A soft-deleted row stays
\* soft-deleted through every add_memory, ingest_event, update_memory and
\* soft_delete call; no search returns it; stats counts the rows that are
\* not soft-deleted and no others.
C26_TombstonesStay ==
    [][ /\ Tombstones(memories) \subseteq Tombstones(memories')
        /\ last'.op = "search" =>
              \A k \in 1..Len(last'.rows) :
                  /\ last'.rows[k].id \notin Tombstones(memories)
                  /\ last'.rows[k].is_deleted = 0
        /\ last'.op = "stats" =>
              \A kind \in Kinds, s \in Scopes :
                  LET counted == {c \in last'.counts :
                                     c.kind = kind /\ c.project_root = s}
                      live == {i \in 1..Len(memories) :
                                  /\ i \notin Tombstones(memories)
                                  /\ memories[i].kind = kind
                                  /\ memories[i].project_root = s}
                  IN  IF live = {} THEN counted = {}
                      ELSE \E c \in counted :
                              counted = {c} /\ c.count = Cardinality(live)
      ]_vars

\* C26 witness: row 1, whose text an update_memory call has set, is
\* soft-deleted; a search that matches both rows returned row 2 alone
C26_Witness ==
    /\ last.op = "search"
    /\ Len(memories) = 2
    /\ memories[1].is_deleted = 1
    /\ memories[1].text = <<"u","s","e"," ","a","b","c">>
    /\ memories[2].is_deleted = 0
    /\ memories[2].project_root = memories[1].project_root
    /\ last.query = <<"u","s","e">>
    /\ Len(last.rows) = 1
    /\ last.rows[1].id = 2


(***************************************************************************)
(* mcp_server.py: the mem_search tool, under SpecTool: memories of two     *)
(* kinds and searches by kind names, valid or not.                         *)
(***************************************************************************)
\* _parse_kinds: None for no names; else the valid names, the others dropped
parse_kinds(kinds) ==
    IF IsNone(kinds) \/ The(kinds) = <<>> THEN None
    ELSE Some(SelectSeq(The(kinds), LAMBDA kind : kind \in Kinds))

\* mem_search: the lists it can return; the project root comes from cwd, and
\* a search without a project includes the global memories
mem_search(st, query, cwd, limit, kinds, tags, include_global_by_default) ==
    LET project_root == IF ~IsNone(cwd) /\ The(cwd) # <<>>
                        THEN detect_project_root(The(cwd)) ELSE None
    IN  search(st, query, project_root, limit,
               IF ~IsNone(project_root) THEN include_global_by_default ELSE TRUE,
               parse_kinds(kinds), tags)

\* a call of the mem_search tool
MemSearch(query, cwd, limit, kinds, tags, include_global_by_default) ==
    /\ IsPlainQuery(query)
    /\ \E rows \in mem_search(St, query, cwd, limit, kinds, tags,
                              include_global_by_default) :
          last' = [op |-> "mem_search", query |-> query, cwd |-> cwd,
                   limit |-> limit, kinds |-> kinds, tags |-> tags, rows |-> rows]
    /\ UNCHANGED <<turns, memories, memory_fts, spool, now, settings, submitted, procs>>

\* the kind names of a mem_search call
KindRequests ==
    {None, Some(<<>>), Some(<<"fact">>), Some(<<"fact", "bogus">>),
     Some(<<"bogus">>), Some(<<"decision", "fact">>)}

ToolCwds == {None, Some(<<"/","a","/","s">>)}

NextTool ==
    \/ \E c \in SearchCandidates, s \in Scopes : AddMemory(c, s)
    \/ \E id \in MemoryIds : SoftDelete(id)
    \/ \E query \in {<<>>, <<"u","s","e">>}, cwd \in ToolCwds, kinds \in KindRequests,
          include_global_by_default \in BOOLEAN :
            MemSearch(query, cwd, 20, kinds, None, include_global_by_default)

SpecTool == InitStore /\ [][NextTool]_vars

\* C27: the kind filter is sound at the tool boundary.  When mem_search is
\* called with a non-empty list of kind names, every returned memory has a
\* kind that is in the list; when no name of the list is a kind, no memory
\* is returned.
C27_KindFilterSound ==
    (last.op = "mem_search" /\ ~IsNone(last.kinds) /\ The(last.kinds) # <<>>) =>
        \A k \in 1..Len(last.rows) :
            \E j \in 1..Len(The(last.kinds)) : last.rows[k].kind = The(last.kinds)[j]


(***************************************************************************)
(* The tag filter and the limit, under SpecSearch.                         *)
(***************************************************************************)
\* the live rows that pass the scope, kind, query and tag conditions of the
\* last search
FullMatches ==
    {i \in Live(memories) : /\ ScopeOk(memories[i])
                            /\ KindOk(memories[i])
                            /\ QueryOk(memories[i])
                            /\ TagOk(memories[i])}

\* C28: a tag-filtered search is complete within the limit.  When search is
\* given a non-empty tag list and at most limit live rows pass the scope,
\* kind, query and tag conditions together, each of them is returned,
\* however many rows pass the other conditions without having the tags.
C28_TagSearchComplete ==
    (Searched /\ ~IsNone(last.tags) /\ The(last.tags) # <<>>
        /\ Cardinality(FullMatches) <= last.limit)
            => FullMatches \subseteq ReturnedIds


(***************************************************************************)
(* Concurrent processes.  Each process has its own sqlite3 connection to   *)
(* the database file (journal_mode WAL, Python's implicit transactions):   *)
(* a SELECT reads the committed tables; the first INSERT or UPDATE of a    *)
(* transaction takes the write lock of the file, which the connection      *)
(* keeps until it commits or is closed; while another connection has the   *)
(* lock, the statement waits and, after the busy timeout, raises           *)
(* sqlite3.OperationalError.  A statement's changes are in `pending` until *)
(* the commit.  A process steps from statement to statement.               *)
(***************************************************************************)
\* the connection of p can write: no other connection has the write lock
write_lock_ignored(pr, p) == TRUE

write_lock_free(pr, p) == \A q \in Procs \ {p} : ~pr[q].holds_lock

\* the SELECT of _merge_if_similar and the loop's test: the first similar
\* row of the window, with the text that was read, or None
merge_select(st, candidate, project_root) ==
    Let(merge_rows(st.memories, candidate.kind, project_root), LAMBDA rows :
    Let({k \in 1..Len(rows) :
            similar(candidate.text, st.memories[rows[k]].text)}, LAMBDA hits :
        IF hits = {} THEN None
        ELSE Some([id |-> rows[SetMin(hits)],
                   text |-> st.memories[rows[SetMin(hits)]].text])))

\* the UPDATE of _merge_if_similar, with the text that the SELECT read
merge_update(st, target, candidate) ==
    Let([st.memories[target.id] EXCEPT
            !.text = merge_text(target.text, candidate.text),
            !.ts_utc = st.now], LAMBDA new :
        [st EXCEPT !.memories[target.id] = new,
                   !.memory_fts = memories_au(st.memory_fts, target.id, new),
                   !.now = st.now + 1])

\* the INSERT of add_memory
memory_insert(st, candidate, project_root, source_turn_id) ==
    LET row == [id |-> Len(st.memories) + 1,
                ts_utc |-> st.now,
                project_root |-> project_root,
                kind |-> candidate.kind,
                text |-> Strip(candidate.text),
                source_turn_id |-> source_turn_id,
                importance |-> candidate.importance,
                is_pinned |-> 0,
                is_deleted |-> 0,
                tags_json |-> IF candidate.tags # <<>>
                              THEN Some(candidate.tags) ELSE None]
    IN  [st EXCEPT !.memories = Append(st.memories, row),
                   !.memory_fts = memories_ai(st.memory_fts, row),
                   !.now = st.now + 1]

\* the tables a transaction has written
Tables(st) ==
    [turns |-> st.turns, memories |-> st.memories, memory_fts |-> st.memory_fts]

\* the redacted turn of a well-formed payload
TurnOf(name) == redact_turn(ParsedPayload[name].turn)

\* ingest_event up to the scope filter: no statement is run
StartIngest(p, name) ==
    /\ procs[p].pc = "idle"
    /\ procs' = [procs EXCEPT ![p] =
          IF ~WellFormed(name)
          THEN [Idle EXCEPT !.op = "ingest_event", !.payload = name,
                            !.pc = "done", !.outcome = "input_error"]
          ELSE IF ~Allowed(name, settings)
          THEN [Idle EXCEPT !.op = "ingest_event", !.payload = name,
                            !.pc = "done", !.outcome = "filtered_out"]
          ELSE [Idle EXCEPT !.op = "ingest_event", !.payload = name,
                            !.project_root = detect_project_root(TurnOf(name).cwd),
                            !.pc = "insert_turn"]]
    /\ submitted' = IF WellFormed(name) /\ Allowed(name, settings)
                    THEN submitted \cup {HashOf(name)} ELSE submitted
    /\ UNCHANGED <<turns, memories, memory_fts, spool, now, settings, last>>

\* the INSERT of insert_turn: a row with the hash makes it fail
\* (IntegrityError, caught: the turn is a duplicate) and the transaction it
\* began stays open
InsertTurn(p) ==
    /\ procs[p].pc = "insert_turn"
    /\ write_lock_free(procs, p)
    /\ \E r \in {insert_turn(St, TurnOf(procs[p].payload), procs[p].project_root,
                             HashOf(procs[p].payload))} :
          procs' = [procs EXCEPT ![p] =
              IF IsNone(r.ret)
              THEN [@ EXCEPT !.pc = "done", !.outcome = "deduped",
                             !.holds_lock = TRUE]
              ELSE [@ EXCEPT !.pc = "commit_turn", !.turn_id = r.ret,
                             !.pending = Some(Tables(r.st)),
                             !.holds_lock = TRUE]]
    /\ UNCHANGED <<turns, memories, memory_fts, spool, now, settings, last, submitted>>

\* the commit of insert_turn, and extract_memories
CommitTurn(p) ==
    /\ procs[p].pc = "commit_turn"
    /\ turns' = The(procs[p].pending).turns
    /\ \E cands \in {extract_memories(TurnOf(procs[p].payload), settings)} :
          procs' = [procs EXCEPT ![p] =
              [@ EXCEPT !.pending = None, !.holds_lock = FALSE,
                        !.extracted = TRUE, !.candidates = cands, !.k = 1,
                        !.pc = IF cands = <<>> THEN "done" ELSE "merge_select",
                        !.outcome = IF cands = <<>> THEN "accepted" ELSE ""]]
    /\ UNCHANGED <<memories, memory_fts, spool, now, settings, last, submitted>>

\* a direct call of add_memory (cli add, mem_add), up to its first statement
StartAdd(p, candidate, project_root) ==
    /\ procs[p].pc = "idle"
    /\ procs' = [procs EXCEPT ![p] =
          [Idle EXCEPT !.op = "add_memory", !.candidates = <<candidate>>,
                       !.k = 1, !.project_root = project_root,
                       !.pc = "merge_select"]]
    /\ UNCHANGED <<turns, memories, memory_fts, spool, now, settings, last, submitted>>

\* the SELECT of _merge_if_similar and the ratio tests on its rows
MergeSelect(p) ==
    /\ procs[p].pc = "merge_select"
    /\ procs' = [procs EXCEPT ![p] =
          [@ EXCEPT !.target = merge_select(St, procs[p].candidates[procs[p].k],
                                            procs[p].project_root),
                    !.pc = "memory_write"]]
    /\ UNCHANGED <<turns, memories, memory_fts, spool, now, settings, last, submitted>>

\* the UPDATE of _merge_if_similar or the INSERT of add_memory
MemoryWrite(p) ==
    /\ procs[p].pc = "memory_write"
    /\ write_lock_free(procs, p)
    /\ \E st \in {IF IsNone(procs[p].target)
                  THEN memory_insert(St, procs[p].candidates[procs[p].k],
                                     procs[p].project_root, procs[p].turn_id)
                  ELSE merge_update(St, The(procs[p].target),
                                    procs[p].candidates[procs[p].k])} :
          /\ procs' = [procs EXCEPT ![p] =
                [@ EXCEPT !.pending = Some(Tables(st)), !.holds_lock = TRUE,
                          !.ret = IF IsNone(procs[p].target)
                                  THEN Some(Len(st.memories))
                                  ELSE Some(The(procs[p].target).id),
                          !.pc = "commit_memory"]]
          /\ now' = st.now
    /\ UNCHANGED <<turns, memories, memory_fts, spool, settings, last, submitted>>

\* the commit of that statement; the next candidate, or the end of the call
CommitMemory(p) ==
    /\ procs[p].pc = "commit_memory"
    /\ memories' = The(procs[p].pending).memories
    /\ memory_fts' = The(procs[p].pending).memory_fts
    /\ procs' = [procs EXCEPT ![p] =
          [@ EXCEPT !.pending = None, !.holds_lock = FALSE, !.target = None,
                    !.k = procs[p].k + 1,
                    !.pc = IF procs[p].k < Len(procs[p].candidates)
                           THEN "merge_select" ELSE "done",
                    !.outcome = IF procs[p].k < Len(procs[p].candidates)
                                THEN "" ELSE "accepted"]]
    /\ UNCHANGED <<turns, spool, now, settings, last, submitted>>

\* the busy timeout of a write statement while another connection has the
\* write lock: ingest_event catches the OperationalError, spools the turn
\* and returns False; a direct add_memory call raises it
LockTimeout(p) ==
    /\ procs[p].pc \in {"insert_turn", "memory_write"}
    /\ ~write_lock_free(procs, p)
    /\ IF procs[p].op = "ingest_event"
       THEN /\ spool' = spool_turn(St, TurnOf(procs[p].payload), settings).spool
            /\ procs' = [procs EXCEPT ![p] =
                  [@ EXCEPT !.pc = "done", !.outcome = "spooled"]]
       ELSE /\ spool' = spool
            /\ procs' = [procs EXCEPT ![p] =
                  [@ EXCEPT !.pc = "done", !.outcome = "raised"]]
    /\ UNCHANGED <<turns, memories, memory_fts, now, settings, last, submitted>>

\* store.close() at the end of the process: an open transaction is rolled
\* back and the write lock released
Close(p) ==
    /\ procs[p].pc = "done"
    /\ procs' = [procs EXCEPT ![p] =
          [@ EXCEPT !.pc = "closed", !.holds_lock = FALSE, !.pending = None]]
    /\ UNCHANGED <<turns, memories, memory_fts, spool, now, settings, last, submitted>>

\* two notify processes, each ingesting one payload
RacePayloads == {"p1", "p2"}

NextRace ==
    \E p \in Procs :
        \/ \E name \in RacePayloads : StartIngest(p, name)
        \/ InsertTurn(p)
        \/ CommitTurn(p)
        \/ MergeSelect(p)
        \/ MemoryWrite(p)
        \/ CommitMemory(p)
        \/ LockTimeout(p)
        \/ Close(p)

SpecRace == InitStore /\ [][NextRace]_vars

\* the process has returned from its call
Returned(p) == procs[p].pc \in {"done", "closed"}

\* C25: concurrent ingestion of one turn.  When two processes run
\* ingest_event on the same payload at the same time, the turns table never
\* has more than one row with its content hash, at most one of the calls
\* gets to the extraction of memories, and the other one returns as deduped
\* or as spooled; neither raises.
C25_ConcurrentIngestOnce ==
    \A p \in Procs : \A q \in Procs \ {p} :
        (/\ procs[p].op = "ingest_event"
         /\ procs[q].op = "ingest_event"
         /\ procs[p].payload = procs[q].payload)
            => /\ Cardinality({i \in 1..Len(turns) :
                      turns[i].hash = HashOf(procs[p].payload)}) <= 1
               /\ ~(procs[p].extracted /\ procs[q].extracted)
               /\ (Returned(p) /\ Returned(q)) =>
                     /\ procs[p].extracted \/ procs[q].extracted
                     /\ procs[p].extracted =>
                           procs[q].outcome \in {"deduped", "spooled"}
                     /\ procs[p].outcome \in {"accepted", "deduped", "spooled"}

\* C25 witness: both processes ingested p1 and have returned with one turns
\* row stored: process 1 lost the lock to process 2 and spooled the turn,
\* process 2 inserted the row and added both memories
C25_Witness ==
    /\ procs[1].op = "ingest_event"
    /\ procs[2].op = "ingest_event"
    /\ procs[1].payload = "p1"
    /\ procs[2].payload = "p1"
    /\ procs[1].outcome = "spooled"
    /\ procs[2].outcome = "accepted"
    /\ procs[2].extracted
    /\ Len(turns) = 1
    /\ Len(memories) = 2
    /\ Len(spool) = 1


\* two processes, each adding one memory
RaceCandidates ==
    {[kind |-> "fact", text |-> t, importance |-> 3, tags |-> <<>>] :
        t \in {<<"u","s","e"," ","a","b","c">>, <<"u","s","e"," ","a","b","c","d">>}}

NextAddRace ==
    \E p \in Procs :
        \/ \E c \in RaceCandidates, s \in Scopes : StartAdd(p, c, s)
        \/ MergeSelect(p)
        \/ MemoryWrite(p)
        \/ CommitMemory(p)
        \/ LockTimeout(p)
        \/ Close(p)

SpecAddRace == InitStore /\ [][NextAddRace]_vars

\* C29: concurrent add of the same memory.  When two processes call
\* add_memory at the same time with the same text, kind and scope, on a
\* table with no similar live memory, then once both have returned the
\* table has exactly one live row with that text: one call inserted it and
\* the other merged into it, and both return its id.
C29_ConcurrentAddOnce ==
    \A p \in Procs : \A q \in Procs \ {p} :
        (/\ procs[p].op = "add_memory"
         /\ procs[q].op = "add_memory"
         /\ procs[p].candidates = procs[q].candidates
         /\ procs[p].project_root = procs[q].project_root
         /\ procs[p].outcome = "accepted"
         /\ procs[q].outcome = "accepted")
            => /\ Cardinality({i \in Live(memories) :
                      /\ memories[i].text = Strip(procs[p].candidates[1].text)
                      /\ memories[i].kind = procs[p].candidates[1].kind
                      /\ memories[i].project_root = procs[p].project_root}) = 1
               /\ procs[p].ret = procs[q].ret

====
